---------------------------- MODULE Spec2Model ----------------------------
(***************************************************************************)
(* Verification model of the taboo-game card curation scripts              *)
(* (add_cards.py, add_more_cards.py, clean_cards.py, review_cards.py,      *)
(* generate_cards.py, generate_from_wordlist.py).                          *)
(*                                                                         *)
(* A Python str is modelled as a sequence of one-character strings, so     *)
(* that lower(), capitalize(), split(), strip(), replace(), endswith()     *)
(* and the substring test are computed character by character.             *)
(***************************************************************************)
EXTENDS Integers, Sequences, FiniteSets, TLC

VARIABLES
    pc,         \* position of the script / driver that is running
    word_in,    \* stemmer driver: the word handed to get_stem
    stem_out,   \* stemmer driver: result of each get_stem copy
    target,     \* validator driver: the card's word
    cand,       \* validator driver: the candidate taboo word
    verdict,    \* validator driver: verdict of each validator
    fn,         \* normalizer driver: which normalizer is applied
    phrase,     \* normalizer driver: the phrase given
    cur,        \* normalizer driver: result of the latest application
    prev,       \* normalizer driver: result of the application before it
    passes,     \* normalizer driver: number of applications so far
    script,     \* run: which script's main is running
    deck,       \* run: generate_from_wordlist's existing_cards (cards.json)
    base,       \* run: the collection as loaded (cards.json; new_cards.json
                \*      for generate_from_wordlist)
    cards,      \* run: the collection in memory (cards / all_cards / new_cards)
    existing_words, \* run: existing_words / all_existing
    total_new,  \* run: add_cards' total_new
    cat_idx,    \* run: index of the current category / tier
    needed,     \* run: generate_cards' needed
    generated,  \* run: generate_cards' generated, the wordlist's tier_generated
    zero_count, \* run: generate_cards' zero_count
    offset,     \* run: the wordlist's offset, clean_cards' i, counted in batches
    cap_left,   \* run: batches fix_all_capitalization has still to send
    saved,      \* run: the content of the collection file on disk
    merge_from, \* history: the collection before the latest merge
    last_batch, \* history: the candidates handed to the latest merge
    n_cand,     \* history: number of candidates handed to merges so far
    resp_in,    \* batch driver: the response handed to generate_cards_batch
    batch_out,  \* batch driver: what generate_cards_batch returned
    taboo_list, \* dedupe driver: the list handed to dedupe_taboo_words
    deduped,    \* dedupe driver: result of the latest application
    deduped_once,   \* dedupe driver: result of the application before it
    dedupe_passes,  \* dedupe driver: number of applications so far
    cards_needing_fixes, \* clean_cards: (card, bad_taboos, good_taboos)
    all_replacements,    \* clean_cards: the replacements collected
    capitalization_map,  \* review_cards: the corrections collected
    words_needing_fix,   \* review_cards: the cards with fewer than 5 taboos
    still_short,         \* review_cards: the final check's still_short
    classifications,     \* reclassify_hard_expert: the answers collected,
                         \*   in insertion order
    changed              \* reclassify_hard_expert: the count it reports

vars == <<pc, word_in, stem_out, target, cand, verdict, fn, phrase, cur,
          prev, passes, script, deck, base, cards, existing_words,
          total_new, cat_idx, needed, generated, zero_count, offset,
          cap_left, saved, merge_from, last_batch, n_cand, resp_in,
          batch_out, taboo_list, deduped, deduped_once, dedupe_passes,
          cards_needing_fixes, all_replacements, capitalization_map,
          words_needing_fix, still_short, classifications, changed>>

stemVars == <<word_in, stem_out>>
tabooVars == <<target, cand, verdict>>
capVars == <<fn, phrase, cur, prev, passes>>
runVars == <<script, deck, base, cards, existing_words, total_new, cat_idx,
             needed, generated, zero_count, offset, cap_left, saved,
             merge_from, last_batch, n_cand>>
batchVars == <<resp_in, batch_out>>
dedupeVars == <<taboo_list, deduped, deduped_once, dedupe_passes>>
cleanVars == <<cards_needing_fixes, all_replacements>>
reviewVars == <<capitalization_map, words_needing_fix, still_short>>
reclassVars == <<classifications, changed>>
repairVars == <<batchVars, dedupeVars, cleanVars, reviewVars, reclassVars>>

\* the run variables clean_cards and review_cards do not use
runRest == <<deck, existing_words, total_new, cat_idx, needed, generated,
             zero_count, cap_left, merge_from, last_batch, n_cand>>

None == "none"

\* the value standing for a call that ended by raising IndexError
IndexError == <<"IndexError">>

-----------------------------------------------------------------------------
(* Python str primitives                                                   *)

UpperLetters ==
    <<"A","B","C","D","E","F","G","H","I","J","K","L","M",
      "N","O","P","Q","R","S","T","U","V","W","X","Y","Z">>

LowerLetters ==
    <<"a","b","c","d","e","f","g","h","i","j","k","l","m",
      "n","o","p","q","r","s","t","u","v","w","x","y","z">>

\* the characters str.split() and str.strip() treat as whitespace
Whitespace == {" ", "\t", "\n"}

\* the mappings str.lower() and str.upper() apply to one character
upper_index == [c \in {UpperLetters[i] : i \in 1..26} |->
                   CHOOSE i \in 1..26 : UpperLetters[i] = c]
lower_index == [c \in {LowerLetters[i] : i \in 1..26} |->
                   CHOOSE i \in 1..26 : LowerLetters[i] = c]

lower_char(c) ==
    IF c \in DOMAIN upper_index THEN LowerLetters[upper_index[c]] ELSE c

upper_char(c) ==
    IF c \in DOMAIN lower_index THEN UpperLetters[lower_index[c]] ELSE c

\* str.lower()
lower(s) == [i \in 1..Len(s) |-> lower_char(s[i])]

\* str.capitalize(): first character upper-cased, the rest lower-cased
capitalize(s) ==
    [i \in 1..Len(s) |-> IF i = 1 THEN upper_char(s[i]) ELSE lower_char(s[i])]

\* str.endswith(suffix)
endswith(s, suffix) ==
    /\ Len(suffix) <= Len(s)
    /\ SubSeq(s, Len(s) - Len(suffix) + 1, Len(s)) = suffix

\* str.startswith(prefix)
startswith(s, prefix) ==
    /\ Len(prefix) <= Len(s)
    /\ SubSeq(s, 1, Len(prefix)) = prefix

\* the Python test  sub in s
contains(s, sub) ==
    \E i \in 1..(Len(s) - Len(sub) + 1) : SubSeq(s, i, i + Len(sub) - 1) = sub

\* str.replace(" ", "")
remove_spaces(s) == SelectSeq(s, LAMBDA c : c # " ")

\* str.strip()
RECURSIVE lstrip(_)
lstrip(s) ==
    IF s # <<>> /\ Head(s) \in Whitespace THEN lstrip(Tail(s)) ELSE s

RECURSIVE rstrip(_)
rstrip(s) ==
    IF s # <<>> /\ s[Len(s)] \in Whitespace
    THEN rstrip(SubSeq(s, 1, Len(s) - 1))
    ELSE s

strip(s) == rstrip(lstrip(s))

\* str.split(): the maximal runs of non-whitespace characters, in order
RECURSIVE split_from(_, _, _)
split_from(s, i, tok) ==
    IF i > Len(s)
    THEN (IF tok = <<>> THEN <<>> ELSE <<tok>>)
    ELSE IF s[i] \in Whitespace
         THEN (IF tok = <<>> THEN <<>> ELSE <<tok>>) \o split_from(s, i + 1, <<>>)
         ELSE split_from(s, i + 1, Append(tok, s[i]))

split(s) == split_from(s, 1, <<>>)

\* ' '.join(words)
RECURSIVE join(_)
join(words) ==
    IF words = <<>> THEN <<>>
    ELSE IF Len(words) = 1 THEN words[1]
    ELSE words[1] \o <<" ">> \o join(Tail(words))

-----------------------------------------------------------------------------
(* Stemmer: the three get_stem copies                                      *)

\* add_cards.py and clean_cards.py
SuffixesValidator ==
    << <<"i","n","g">>, <<"e","d">>, <<"e","r">>, <<"e","s","t">>,
       <<"l","y">>, <<"s">>, <<"e","s">>, <<"t","i","o","n">>,
       <<"n","e","s","s">> >>

\* review_cards.py
SuffixesReview ==
    << <<"i","n","g">>, <<"e","d">>, <<"e","r">>, <<"e","s","t">>,
       <<"l","y">>, <<"s">>, <<"e","s">>, <<"i","e","s">>,
       <<"t","i","o","n">>, <<"n","e","s","s">>, <<"m","e","n","t">> >>

\* the loop  for suffix in [...]: if w.endswith(suffix) and len(w) > len(suffix) + 2
RECURSIVE stem_loop(_, _, _)
stem_loop(w, suffixes, i) ==
    IF i > Len(suffixes) THEN w
    ELSE IF endswith(w, suffixes[i]) /\ Len(w) > Len(suffixes[i]) + 2
         THEN SubSeq(w, 1, Len(w) - Len(suffixes[i]))
         ELSE stem_loop(w, suffixes, i + 1)

\* the same loop with the length guard off by one
RECURSIVE stem_loop_short_guard(_, _, _)
stem_loop_short_guard(w, suffixes, i) ==
    IF i > Len(suffixes) THEN w
    ELSE IF endswith(w, suffixes[i]) /\ Len(w) > Len(suffixes[i]) + 1
         THEN SubSeq(w, 1, Len(w) - Len(suffixes[i]))
         ELSE stem_loop_short_guard(w, suffixes, i + 1)

get_stem_add_cards(word) == stem_loop(lower(word), SuffixesValidator, 1)

get_stem_clean_cards_short_guard(word) ==
    stem_loop_short_guard(lower(word), SuffixesValidator, 1)

get_stem_clean_cards(word) == stem_loop(lower(word), SuffixesValidator, 1)

get_stem_review_cards(word) == stem_loop(lower(word), SuffixesReview, 1)


-----------------------------------------------------------------------------
(* Stemmer driver: one word is handed to each get_stem copy in turn        *)

MaxStemRoot == 3

StemRootChars == {"a", "B", "e", "s"}

SeqsUpTo(S, n) == UNION {[1..k -> S] : k \in 0..n}

StemTails ==
    { <<>>, <<"I","N","G">> }
    \cup {SuffixesReview[i] : i \in 1..Len(SuffixesReview)}

StemWords == {r \o t : r \in SeqsUpTo(StemRootChars, MaxStemRoot), t \in StemTails}

NoStems == [add_cards |-> None, clean_cards |-> None, review_cards |-> None]

StemIdle == word_in = <<>> /\ stem_out = NoStems

StemInit ==
    /\ pc = "stem_add_cards"
    /\ word_in \in StemWords
    /\ stem_out = NoStems

StemAddCards ==
    /\ pc = "stem_add_cards"
    /\ stem_out' = [stem_out EXCEPT !.add_cards = get_stem_add_cards(word_in)]
    /\ pc' = "stem_clean_cards"
    /\ UNCHANGED <<word_in, tabooVars, capVars, runVars, repairVars>>

StemCleanCards ==
    /\ pc = "stem_clean_cards"
    /\ stem_out' = [stem_out EXCEPT !.clean_cards = get_stem_clean_cards(word_in)]
    /\ pc' = "stem_review_cards"
    /\ UNCHANGED <<word_in, tabooVars, capVars, runVars, repairVars>>

StemReviewCards ==
    /\ pc = "stem_review_cards"
    /\ stem_out' = [stem_out EXCEPT !.review_cards = get_stem_review_cards(word_in)]
    /\ pc' = "stem_done"
    /\ UNCHANGED <<word_in, tabooVars, capVars, runVars, repairVars>>

-----------------------------------------------------------------------------
(* Taboo validators                                                        *)

\* add_cards.py
is_problematic_taboo_add_cards(main_word, taboo) ==
    LET main_lower == remove_spaces(lower(main_word))
        taboo_lower == lower(taboo)
    IN  IF contains(strip(taboo), <<" ">>) THEN TRUE
        ELSE IF taboo_lower = main_lower THEN TRUE
        ELSE IF Len(taboo_lower) >= 3 /\ contains(main_lower, taboo_lower) THEN TRUE
        ELSE IF Len(main_lower) >= 3 /\ contains(taboo_lower, main_lower) THEN TRUE
        ELSE IF get_stem_add_cards(main_lower) = get_stem_add_cards(taboo_lower) THEN TRUE
        ELSE FALSE

\* clean_cards.py: returns the pair (is_bad, reason)
is_problematic_taboo_clean_cards(main_word, taboo) ==
    LET main_lower == remove_spaces(lower(main_word))
        taboo_lower == lower(taboo)
    IN  IF contains(strip(taboo), <<" ">>) THEN <<TRUE, "multi-word">>
        ELSE IF taboo_lower = main_lower THEN <<TRUE, "exact match">>
        ELSE IF Len(taboo_lower) >= 3 /\ contains(main_lower, taboo_lower)
             THEN <<TRUE, "substring of main">>
        ELSE IF Len(main_lower) >= 3 /\ contains(taboo_lower, main_lower)
             THEN <<TRUE, "main is substring">>
        ELSE IF get_stem_clean_cards(main_lower) = get_stem_clean_cards(taboo_lower)
             THEN <<TRUE, "same stem">>
        ELSE <<FALSE, None>>

\* add_more_cards.py
is_bad_taboo(main, taboo) ==
    LET m == remove_spaces(lower(main))
        t == lower(taboo)
    IN  IF contains(strip(taboo), <<" ">>) THEN TRUE
        ELSE IF t = m THEN TRUE
        ELSE IF Len(t) >= 3 /\ contains(m, t) THEN TRUE
        ELSE IF Len(m) >= 3 /\ contains(t, m) THEN TRUE
        ELSE FALSE

-----------------------------------------------------------------------------
(* Validator driver: one (word, candidate) pair is handed to each validator *)

MaxTabooRoot == 3

TabooRootChars == {"b", "a"}

TabooRoots == SeqsUpTo(TabooRootChars, MaxTabooRoot) \ {<<>>}

TabooTails ==
    {<<>>} \cup {SuffixesReview[i] : i \in 1..Len(SuffixesReview)}

\* targets: a word, the same word capitalized, and a two-token phrase
TabooTargets ==
    LET plain == {r \o t : r \in TabooRoots, t \in {<<>>, <<"e","r">>, <<"e","s">>, <<"s">>}}
    IN  plain
        \cup {capitalize(w) : w \in plain}
        \cup {r \o <<" ">> \o capitalize(r) : r \in TabooRoots}

\* candidates: a word, with a capital, with surrounding blanks, and two
\* words separated by a space, a tab or a line break
TabooCandidates ==
    LET plain == {r \o t : r \in TabooRoots, t \in TabooTails}
        short == {r \in TabooRoots : Len(r) <= 2}
    IN  plain
        \cup {capitalize(r) : r \in TabooRoots}
        \cup {<<" ">> \o r : r \in TabooRoots}
        \cup {r \o <<" ">> : r \in TabooRoots}
        \cup {r \o <<sep>> \o q : r \in short, q \in short, sep \in Whitespace}

NoVerdicts == [add_cards |-> None, clean_cards |-> None, add_more_cards |-> None]

TabooIdle == target = <<>> /\ cand = <<>> /\ verdict = NoVerdicts

TabooInit ==
    /\ pc = "taboo_add_cards"
    /\ target \in TabooTargets
    /\ cand \in TabooCandidates
    /\ verdict = NoVerdicts

TabooAddCards ==
    /\ pc = "taboo_add_cards"
    /\ verdict' = [verdict EXCEPT
                     !.add_cards = is_problematic_taboo_add_cards(target, cand)]
    /\ pc' = "taboo_clean_cards"
    /\ UNCHANGED <<target, cand, stemVars, capVars, runVars, repairVars>>

TabooCleanCards ==
    /\ pc = "taboo_clean_cards"
    /\ verdict' = [verdict EXCEPT
                     !.clean_cards = is_problematic_taboo_clean_cards(target, cand)]
    /\ pc' = "taboo_add_more_cards"
    /\ UNCHANGED <<target, cand, stemVars, capVars, runVars, repairVars>>

TabooAddMoreCards ==
    /\ pc = "taboo_add_more_cards"
    /\ verdict' = [verdict EXCEPT !.add_more_cards = is_bad_taboo(target, cand)]
    /\ pc' = "taboo_done"
    /\ UNCHANGED <<target, cand, stemVars, capVars, runVars, repairVars>>

-----------------------------------------------------------------------------
(* Capitalization normalizers                                              *)

\* add_cards.py fix_capitalization: words that should stay lowercase
lowercase_words ==
    { <<"a">>, <<"a","n">>, <<"t","h","e">>, <<"a","n","d">>, <<"o","r">>,
      <<"b","u","t">>, <<"i","n">>, <<"o","n">>, <<"a","t">>, <<"t","o">>,
      <<"f","o","r">>, <<"o","f">>, <<"w","i","t","h">>, <<"b","y">>,
      <<"f","r","o","m">>, <<"u","p">>, <<"a","b","o","u","t">>,
      <<"i","n","t","o">>, <<"o","v","e","r">>, <<"a","f","t","e","r">>,
      <<"p","a","r","t","y">>, <<"c","a","k","e">>, <<"b","a","l","l">>,
      <<"g","a","m","e">>, <<"h","o","u","s","e">>, <<"t","r","e","e">>,
      <<"c","a","r">>, <<"d","a","y">>, <<"n","i","g","h","t">>,
      <<"r","o","o","m">>, <<"b","o","x">>, <<"b","a","g">>,
      <<"c","u","p">>, <<"g","l","a","s","s">>, <<"p","l","a","t","e">>,
      <<"b","o","w","l">>, <<"m","a","c","h","i","n","e">>,
      <<"s","t","a","t","i","o","n">>, <<"s","h","o","p">>,
      <<"s","t","o","r","e">>, <<"b","a","r">>, <<"c","l","u","b">>,
      <<"r","i","n","g">>, <<"d","a","n","c","e">>, <<"s","o","n","g">>,
      <<"s","h","o","w">>, <<"t","r","i","p">>, <<"r","i","d","e">>,
      <<"r","a","c","e">>, <<"f","i","g","h","t">>, <<"m","a","t","c","h">>,
      <<"c","r","e","a","m">>, <<"s","a","u","c","e">>,
      <<"j","u","i","c","e">>, <<"b","r","e","a","d">>, <<"m","e","a","t">>,
      <<"f","i","s","h">>, <<"c","h","i","c","k","e","n">>,
      <<"s","a","l","a","d">>, <<"s","o","u","p">>, <<"p","i","e">>,
      <<"c","o","o","k","i","e">>, <<"c","a","n","d","y">>,
      <<"c","h","i","p","s">>, <<"f","r","i","e","s">>,
      <<"b","u","r","g","e","r">>, <<"s","a","n","d","w","i","c","h">>,
      <<"p","i","z","z","a">>, <<"t","a","c","o">>, <<"s","u","s","h","i">>,
      <<"p","a","s","t","a">>, <<"r","i","c","e">>, <<"b","e","a","n","s">>,
      <<"c","o","r","n">>, <<"p","o","t","a","t","o">>,
      <<"t","o","m","a","t","o">>, <<"c","h","e","e","s","e">>,
      <<"b","u","t","t","e","r">>, <<"o","i","l">>, <<"s","a","l","t">>,
      <<"p","e","p","p","e","r">>, <<"s","u","g","a","r">>,
      <<"f","l","o","u","r">>, <<"e","g","g">>, <<"m","i","l","k">>,
      <<"w","a","t","e","r">>, <<"w","i","n","e">>, <<"b","e","e","r">>,
      <<"c","o","f","f","e","e">>, <<"t","e","a">>, <<"s","o","d","a">>,
      <<"p","o","p">>, <<"c","o","c","k","t","a","i","l">> }

\* add_more_cards.py fix_cap
lowercases ==
    { <<"a">>, <<"a","n">>, <<"t","h","e">>, <<"a","n","d">>, <<"o","r">>,
      <<"b","u","t">>, <<"i","n">>, <<"o","n">>, <<"a","t">>, <<"t","o">>,
      <<"f","o","r">>, <<"o","f">>, <<"w","i","t","h">>, <<"b","y">>,
      <<"f","r","o","m">>, <<"p","a","r","t","y">>, <<"c","a","k","e">>,
      <<"b","a","l","l">>, <<"g","a","m","e">>, <<"d","a","y">>,
      <<"n","i","g","h","t">>, <<"c","r","e","a","m">>,
      <<"s","a","u","c","e">> }

\* the tokens after the first: lower-cased when in the set, else as given
later_tokens(words, lowerset) ==
    [i \in 1..Len(words) |->
        IF lower(words[i]) \in lowerset THEN lower(words[i]) ELSE words[i]]

\* fix_capitalization whose single-word branch only raises the first letter
fix_capitalization_keep_rest(word) ==
    LET words == split(word)
    IN  IF Len(words) = 1
        THEN [i \in 1..Len(words[1]) |->
                 IF i = 1 THEN upper_char(words[1][i]) ELSE words[1][i]]
        ELSE join([i \in 1..Len(words) |->
                     IF i = 1
                     THEN capitalize(words[i])
                     ELSE IF lower(words[i]) \in lowercase_words
                          THEN lower(words[i])
                          ELSE words[i]])

\* add_cards.py
fix_capitalization(word) ==
    LET words == split(word)
    IN  IF Len(words) = 1
        THEN capitalize(words[1])
        ELSE join([i \in 1..Len(words) |->
                     IF i = 1
                     THEN capitalize(words[i])
                     ELSE IF lower(words[i]) \in lowercase_words
                          THEN lower(words[i])
                          ELSE words[i]])

\* fix_cap capitalizing every token of a multi-word phrase
fix_cap_title_case(word) ==
    LET words == split(word)
    IN  IF Len(words) = 0
        THEN IndexError
        ELSE join([i \in 1..Len(words) |-> capitalize(words[i])])

\* add_more_cards.py; words[0] of an empty list raises IndexError
fix_cap(word) ==
    LET words == split(word)
    IN  IF Len(words) = 1
        THEN capitalize(words[1])
        ELSE IF Len(words) = 0
             THEN IndexError
             ELSE join(<<capitalize(words[1])>>
                       \o later_tokens(Tail(words), lowercases))

-----------------------------------------------------------------------------
(* Normalizer driver: a phrase is normalized, and the result once more     *)

MaxTokens == 3

\* tokens: in both lower-case sets, in the add_cards set only, in neither,
\* each in several casings, and one with a non-letter
CapTokens ==
    { <<"d","a","y">>, <<"D","A","Y">>,
      <<"B","a","r">>,
      <<"I","o">>, <<"i","O">>,
      <<"x","-","R">> }

CapSeparators == { <<" ">>, <<" "," ">>, <<"\t">> }

\* the tokens joined by one separator, optionally padded with blanks
RECURSIVE join_with(_, _)
join_with(words, sep) ==
    IF words = <<>> THEN <<>>
    ELSE IF Len(words) = 1 THEN words[1]
    ELSE words[1] \o sep \o join_with(Tail(words), sep)

CapPhrases ==
    LET bare == {join_with(ws, sep) :
                    ws \in SeqsUpTo(CapTokens, MaxTokens), sep \in CapSeparators}
    IN  bare \cup {<<" ">> \o p \o <<" ">> : p \in bare}

CapIdle ==
    fn = None /\ phrase = <<>> /\ cur = <<>> /\ prev = <<>> /\ passes = 0

CapInit ==
    /\ pc = "normalize"
    /\ fn \in {"fix_capitalization", "fix_cap"}
    /\ phrase \in CapPhrases
    /\ cur = phrase
    /\ prev = <<>>
    /\ passes = 0

\* add_cards.py: card['word'] = fix_capitalization(card['word'])
ApplyFixCapitalization ==
    /\ pc = "normalize"
    /\ fn = "fix_capitalization"
    /\ passes < 2
    /\ cur # IndexError
    /\ cur' = fix_capitalization(cur)
    /\ prev' = cur
    /\ passes' = passes + 1
    /\ UNCHANGED <<fn, phrase, pc, stemVars, tabooVars, runVars, repairVars>>

\* add_more_cards.py: card['word'] = fix_cap(card['word'])
ApplyFixCap ==
    /\ pc = "normalize"
    /\ fn = "fix_cap"
    /\ passes < 2
    /\ cur # IndexError
    /\ cur' = fix_cap(cur)
    /\ prev' = cur
    /\ passes' = passes + 1
    /\ UNCHANGED <<fn, phrase, pc, stemVars, tabooVars, runVars, repairVars>>

-----------------------------------------------------------------------------
(* Card collections                                                       *)

\* a key absent from a card object
Missing == <<"<missing>">>

Card(w, t, d, c) == [word |-> w, taboo |-> t, difficulty |-> d, category |-> c]

\* set(card['word'].lower() for card in cards)
LowerWords(cs) == {lower(cs[i].word) : i \in 1..Len(cs)}

RunIdle ==
    /\ script = None /\ deck = <<>> /\ base = <<>> /\ cards = <<>>
    /\ existing_words = {} /\ total_new = 0 /\ cat_idx = 0 /\ needed = 0
    /\ generated = 0 /\ zero_count = 0 /\ offset = 0 /\ cap_left = 0
    /\ saved = <<>> /\ merge_from = <<>> /\ last_batch = <<>> /\ n_cand = 0

BatchIdle == resp_in = <<>> /\ batch_out = <<>>

DedupeIdle ==
    taboo_list = <<>> /\ deduped = <<>> /\ deduped_once = <<>> /\ dedupe_passes = 0

CleanIdle == cards_needing_fixes = <<>> /\ all_replacements = <<>>

ReviewIdle ==
    capitalization_map = <<>> /\ words_needing_fix = <<>> /\ still_short = <<>>

ReclassIdle == classifications = <<>> /\ changed = 0

RepairIdle == BatchIdle /\ DedupeIdle /\ CleanIdle /\ ReviewIdle /\ ReclassIdle

-----------------------------------------------------------------------------
(* add_cards.py: generate_cards_batch, the merge loop of main,             *)
(* fix_all_capitalization                                                  *)

\* good_taboos: the taboo words the validator accepts, lower-cased
good_taboos_add_cards(word, taboo) ==
    LET kept == SelectSeq(taboo, LAMBDA t : ~is_problematic_taboo_add_cards(word, t))
    IN  [i \in 1..Len(kept) |-> lower(kept[i])]

first_five(s) == SubSeq(s, 1, IF Len(s) < 5 THEN Len(s) ELSE 5)

\* a response is [ok, cards]: ok is FALSE when the call or json.loads
\* raised; reading 'word' or 'taboo' of a card without the key raises
\* KeyError inside the try, and every exception makes the function return []
generate_cards_batch_add_cards(resp) ==
    IF ~resp.ok THEN <<>>
    ELSE IF \E i \in 1..Len(resp.cards) :
                \/ resp.cards[i].word = Missing
                \/ Len(split(resp.cards[i].word)) <= 2 /\ resp.cards[i].taboo = Missing
    THEN <<>>
    ELSE LET short == SelectSeq(resp.cards, LAMBDA c : ~(Len(split(c.word)) > 2))
             fixed == [i \in 1..Len(short) |->
                         [short[i] EXCEPT !.word = fix_capitalization(short[i].word)]]
             valid == SelectSeq(fixed, LAMBDA c :
                         Len(good_taboos_add_cards(c.word, c.taboo)) >= 3)
         IN  [i \in 1..Len(valid) |->
                [valid[i] EXCEPT
                   !.taboo = first_five(good_taboos_add_cards(valid[i].word, valid[i].taboo))]]

\* the merge loop comparing the word as given, not lower-cased
RECURSIVE merge_add_cards_case_loop(_, _, _, _, _, _)
merge_add_cards_case_loop(cs, ex, added, new_cards, i, category) ==
    IF i > Len(new_cards)
    THEN [cards |-> cs, existing_words |-> ex, added |-> added]
    ELSE IF new_cards[i].word \notin ex
         THEN merge_add_cards_case_loop(
                  Append(cs, [new_cards[i] EXCEPT !.category = category]),
                  ex \cup {lower(new_cards[i].word)}, added + 1,
                  new_cards, i + 1, category)
         ELSE merge_add_cards_case_loop(cs, ex, added, new_cards, i + 1, category)

merge_add_cards_case_sensitive(cs, ex, new_cards, category) ==
    merge_add_cards_case_loop(cs, ex, 0, new_cards, 1, category)

\* the merge loop inserting each new card at the front
RECURSIVE merge_add_cards_front_loop(_, _, _, _, _, _)
merge_add_cards_front_loop(cs, ex, added, new_cards, i, category) ==
    IF i > Len(new_cards)
    THEN [cards |-> cs, existing_words |-> ex, added |-> added]
    ELSE IF lower(new_cards[i].word) \notin ex
         THEN merge_add_cards_front_loop(
                  <<[new_cards[i] EXCEPT !.category = category]>> \o cs,
                  ex \cup {lower(new_cards[i].word)}, added + 1,
                  new_cards, i + 1, category)
         ELSE merge_add_cards_front_loop(cs, ex, added, new_cards, i + 1, category)

merge_add_cards_at_front(cs, ex, new_cards, category) ==
    merge_add_cards_front_loop(cs, ex, 0, new_cards, 1, category)

\* for card in new_cards: if card['word'].lower() not in existing_words: ...
RECURSIVE merge_add_cards_loop(_, _, _, _, _, _)
merge_add_cards_loop(cs, ex, added, new_cards, i, category) ==
    IF i > Len(new_cards)
    THEN [cards |-> cs, existing_words |-> ex, added |-> added]
    ELSE IF lower(new_cards[i].word) \notin ex
         THEN merge_add_cards_loop(
                  Append(cs, [new_cards[i] EXCEPT !.category = category]),
                  ex \cup {lower(new_cards[i].word)}, added + 1,
                  new_cards, i + 1, category)
         ELSE merge_add_cards_loop(cs, ex, added, new_cards, i + 1, category)

merge_add_cards(cs, ex, new_cards, category) ==
    merge_add_cards_loop(cs, ex, 0, new_cards, 1, category)

\* batch_size of fix_all_capitalization
cap_batch_size == 100

\* the number of batches: range(0, len(words_to_check), batch_size)
cap_batches(cs) ==
    (Cardinality({cs[i].word : i \in 1..Len(cs)}) + cap_batch_size - 1) \div cap_batch_size

\* for card in cards: if card['word'] in corrections: card['word'] = ...
apply_corrections(cs, corrections) ==
    [i \in 1..Len(cs) |->
        IF cs[i].word \in DOMAIN corrections
        THEN [cs[i] EXCEPT !.word = corrections[cs[i].word]]
        ELSE cs[i]]

\* card['taboo'] = [t.lower() for t in card['taboo']]
lowercase_taboos(cs) ==
    [i \in 1..Len(cs) |->
        [cs[i] EXCEPT !.taboo = [j \in 1..Len(cs[i].taboo) |-> lower(cs[i].taboo[j])]]]

-----------------------------------------------------------------------------
(* generate_cards.py and generate_from_wordlist.py: the merge loops        *)

\* generate_cards.py generate_cards_batch: the parsed list, [] on any error
generate_cards_batch_generate_cards(resp) == IF resp.ok THEN resp.cards ELSE <<>>

\* generate_from_wordlist.py generate_taboo_batch
generate_taboo_batch(resp) == IF resp.ok THEN resp.cards ELSE <<>>

\* card['word'] of a card without the key raises KeyError, which main
\* does not catch
RECURSIVE merge_generate_cards_loop(_, _, _, _, _)
merge_generate_cards_loop(new_cards, ex, batch, i, category) ==
    IF i > Len(batch)
    THEN [new_cards |-> new_cards, existing_words |-> ex, raised |-> FALSE]
    ELSE IF batch[i].word = Missing
    THEN [new_cards |-> new_cards, existing_words |-> ex, raised |-> TRUE]
    ELSE IF lower(batch[i].word) \notin ex
         THEN merge_generate_cards_loop(
                  Append(new_cards, [batch[i] EXCEPT !.category = category]),
                  ex \cup {lower(batch[i].word)}, batch, i + 1, category)
         ELSE merge_generate_cards_loop(new_cards, ex, batch, i + 1, category)

merge_generate_cards(ex, batch, category) ==
    merge_generate_cards_loop(<<>>, ex, batch, 1, category)

\* the merge loop as it would be without  card['difficulty'] = difficulty
RECURSIVE merge_wordlist_keep_loop(_, _, _, _, _)
merge_wordlist_keep_loop(cs, ex, added, batch, i) ==
    IF i > Len(batch)
    THEN [cards |-> cs, existing_words |-> ex, added |-> added, raised |-> FALSE]
    ELSE IF batch[i].word = Missing
    THEN [cards |-> cs, existing_words |-> ex, added |-> added, raised |-> TRUE]
    ELSE IF lower(batch[i].word) \notin ex
         THEN merge_wordlist_keep_loop(Append(cs, batch[i]),
                  ex \cup {lower(batch[i].word)}, added + 1, batch, i + 1)
         ELSE merge_wordlist_keep_loop(cs, ex, added, batch, i + 1)

merge_wordlist_keep_difficulty(cs, ex, batch, difficulty) ==
    merge_wordlist_keep_loop(cs, ex, 0, batch, 1)

RECURSIVE merge_wordlist_loop(_, _, _, _, _, _)
merge_wordlist_loop(cs, ex, added, batch, i, difficulty) ==
    IF i > Len(batch)
    THEN [cards |-> cs, existing_words |-> ex, added |-> added, raised |-> FALSE]
    ELSE IF batch[i].word = Missing
    THEN [cards |-> cs, existing_words |-> ex, added |-> added, raised |-> TRUE]
    ELSE IF lower(batch[i].word) \notin ex
         THEN merge_wordlist_loop(
                  Append(cs, [batch[i] EXCEPT !.difficulty = difficulty]),
                  ex \cup {lower(batch[i].word)}, added + 1, batch, i + 1, difficulty)
         ELSE merge_wordlist_loop(cs, ex, added, batch, i + 1, difficulty)

merge_wordlist(cs, ex, batch, difficulty) ==
    merge_wordlist_loop(cs, ex, 0, batch, 1, difficulty)

\* sum(1 for c in new_cards if c.get('difficulty') == difficulty)
count_difficulty(cs, difficulty) ==
    Cardinality({i \in 1..Len(cs) : cs[i].difficulty = difficulty})

\* the count of a run that does not look at the cards it loaded
count_category_fresh(cs, category) == 0

\* category_counts.get(category['name'], 0)
count_category(cs, category) ==
    Cardinality({i \in 1..Len(cs) : cs[i].category = category})

\* the limit as it would be if one more empty batch were let through
max_zero_batches_plus_one == 3 + 1

max_zero_batches == 3

Tiers == <<"easy", "medium", "hard", "expert">>

-----------------------------------------------------------------------------
(* The runs: what is on disk, what the service answers                     *)

\* NEW_CATEGORIES / CATEGORIES: the first NumCategories entries are run
NumCategories == 2
\* generate_cards' category['count'] (100 to 250 in CATEGORIES), scaled down
CategoryCount == 2
\* number of 150-word batches a tier's candidate list holds
TierBatches == 1
\* the most cards one response of the service holds
MaxBatch == 2

\* add_cards.py main: target
add_cards_target == 500

\* generate_from_wordlist.py main
target_per_tier == [easy |-> 300, medium |-> 300, hard |-> 200, expert |-> 100]

W_ox == <<"o","x">>
W_Ox == <<"O","x">>
W_OX == <<"O","X">>
W_emu == <<"E","m","u">>
W_yak_day_raw == <<"y","a","k"," ","D","A","Y">>
W_Yak_day == <<"Y","a","k"," ","d","a","y">>
W_Yak_Day == <<"Y","a","k"," ","D","a","y">>
W_three == <<"a"," ","b"," ","c">>

T_cow == <<"C","o","w">>
T_moo == <<"m","o","o">>
T_hay == <<"h","a","y">>
T_pen == <<"p","e","n">>
T_fur == <<"f","u","r">>

TabooWithOx == <<T_cow, T_moo, T_hay, T_pen, W_ox>>
TabooPlain == <<T_cow, T_moo, T_hay, T_pen, T_fur>>

\* card objects the generation service may return; the last has no 'word'
CardPool ==
    { Card(W_ox, TabooWithOx, "easy", 0),
      Card(W_OX, TabooPlain, "hard", 0),
      Card(W_yak_day_raw, TabooPlain, "easy", 0),
      Card(Missing, TabooPlain, "easy", 0) }

\* add_cards also meets a phrase of three words
CardPoolAddCards == CardPool \cup {Card(W_three, TabooPlain, "easy", 0)}

\* the lists of at most n different cards of a pool
ListsOf(pool, n) ==
    {cs \in SeqsUpTo(pool, n) : \A i, j \in 1..Len(cs) : i # j => cs[i] # cs[j]}

\* a response is [ok, cards]: ok is FALSE when the call failed or its text
\* did not parse
Responses(pool) ==
    {[ok |-> FALSE, cards |-> <<>>]}
    \cup {[ok |-> TRUE, cards |-> cs] : cs \in ListsOf(pool, MaxBatch)}

ServiceResponses == Responses(CardPool)

ServiceResponsesAddCards == Responses(CardPoolAddCards)

\* collections cards.json may hold when a run starts
BaseCollections ==
    { <<>>,
      <<Card(W_Yak_day, TabooPlain, "easy", 0), Card(W_OX, TabooPlain, "easy", 0)>>,
      <<Card(W_Ox, TabooPlain, "easy", 0), Card(W_ox, TabooPlain, "hard", 0)>>,
      <<Card(W_emu, TabooPlain, "medium", 2)>> }

\* what new_cards.json may hold when generate_from_wordlist starts
ProgressCollections ==
    { <<>>,
      <<Card(W_emu, TabooPlain, "easy", 0), Card(W_Yak_day, TabooPlain, "easy", 0)>> }

\* what cards.json may hold when generate_from_wordlist starts
DeckCollections ==
    { <<>>, <<Card(W_OX, TabooPlain, "easy", 0)>> }

\* answers of the capitalization service: a failure, or a mapping
CapResponses ==
    { [ok |-> FALSE, map |-> <<>>],
      [ok |-> TRUE, map |-> <<>>],
      [ok |-> TRUE, map |-> (W_Yak_day :> W_Yak_Day)],
      [ok |-> TRUE, map |-> (W_Yak_day :> W_OX)],
      [ok |-> TRUE, map |-> (W_Ox :> W_three)] }

RunInit ==
    /\ script \in {"add_cards", "generate_cards", "generate_from_wordlist"}
    /\ IF script = "generate_from_wordlist"
       THEN deck \in DeckCollections /\ base \in ProgressCollections
       ELSE deck = <<>> /\ base \in BaseCollections
    /\ pc = script
    /\ cards = base
    /\ existing_words = LowerWords(deck) \cup LowerWords(base)
    /\ total_new = 0
    /\ cat_idx = 1
    /\ needed = 0 /\ generated = 0 /\ zero_count = 0 /\ offset = 0
    /\ cap_left = 0
    /\ saved = base
    /\ merge_from = <<>> /\ last_batch = <<>> /\ n_cand = 0

notRun == <<stemVars, tabooVars, capVars, repairVars>>

\* add_cards.py main: one iteration of  for category in NEW_CATEGORIES,
\* up to its time.sleep
AddCardsCategory ==
    /\ pc = "add_cards"
    /\ cat_idx <= NumCategories
    /\ total_new < add_cards_target
    /\ \E resp \in ServiceResponsesAddCards :
         LET new_cards == generate_cards_batch_add_cards(resp)
             m == merge_add_cards(cards, existing_words, new_cards, cat_idx)
         IN  /\ cards' = m.cards
             /\ existing_words' = m.existing_words
             /\ total_new' = total_new + m.added
             /\ merge_from' = cards
             /\ last_batch' = new_cards
             /\ n_cand' = n_cand + Len(new_cards)
    /\ pc' = "add_cards_sleep"
    /\ UNCHANGED <<script, deck, base, cat_idx, needed, generated, zero_count,
                   offset, cap_left, saved, notRun>>

\* add_cards.py main: the iteration is over, its locals are dead
AddCardsSleep ==
    /\ pc = "add_cards_sleep"
    /\ pc' = "add_cards"
    /\ cat_idx' = cat_idx + 1
    /\ merge_from' = <<>>
    /\ last_batch' = <<>>
    /\ UNCHANGED <<script, deck, base, cards, existing_words, total_new, needed,
                   generated, zero_count, offset, cap_left, saved, n_cand, notRun>>

\* add_cards.py main: the loop ends (no category left, or the break), and
\* fix_all_capitalization collects words_to_check
AddCardsLoopEnd ==
    /\ pc = "add_cards"
    /\ cat_idx > NumCategories \/ total_new >= add_cards_target
    /\ pc' = "fix_all_capitalization"
    /\ cap_left' = cap_batches(cards)
    /\ UNCHANGED <<script, deck, base, cards, existing_words, total_new, cat_idx,
                   needed, generated, zero_count, offset, saved, merge_from,
                   last_batch, n_cand, notRun>>

\* fix_all_capitalization: one batch; a failure leaves the cards as they are
FixAllCapitalizationBatch ==
    /\ pc = "fix_all_capitalization"
    /\ cap_left > 0
    /\ \E resp \in CapResponses :
         cards' = IF resp.ok THEN apply_corrections(cards, resp.map) ELSE cards
    /\ cap_left' = cap_left - 1
    /\ UNCHANGED <<pc, script, deck, base, existing_words, total_new, cat_idx,
                   needed, generated, zero_count, offset, saved, merge_from,
                   last_batch, n_cand, notRun>>

\* add_cards.py main: lower-case all taboo words and save
AddCardsSave ==
    /\ pc = "fix_all_capitalization"
    /\ cap_left = 0
    /\ cards' = lowercase_taboos(cards)
    /\ saved' = lowercase_taboos(cards)
    /\ pc' = "done"
    /\ UNCHANGED <<script, deck, base, existing_words, total_new, cat_idx,
                   needed, generated, zero_count, offset, cap_left, merge_from,
                   last_batch, n_cand, notRun>>

\* generate_cards.py main: the next category is skipped or started
GenerateCardsCategory ==
    /\ pc = "generate_cards"
    /\ cat_idx <= NumCategories
    /\ LET n == CategoryCount - count_category(base, cat_idx)
       IN  IF n <= 0
           THEN /\ cat_idx' = cat_idx + 1
                /\ UNCHANGED <<pc, needed, generated, zero_count>>
           ELSE /\ pc' = "generate_cards_batch"
                /\ needed' = n
                /\ generated' = 0
                /\ zero_count' = 0
                /\ UNCHANGED cat_idx
    /\ UNCHANGED <<script, deck, base, cards, existing_words, total_new, offset,
                   cap_left, saved, merge_from, last_batch, n_cand, notRun>>

\* generate_cards.py main: one iteration of  while generated < needed,
\* up to its break or its time.sleep
GenerateCardsBatch ==
    /\ pc = "generate_cards_batch"
    /\ generated < needed
    /\ \E resp \in ServiceResponses :
         LET batch == generate_cards_batch_generate_cards(resp)
             m == merge_generate_cards(existing_words, batch, cat_idx)
         IN  /\ existing_words' = m.existing_words
             /\ merge_from' = cards
             /\ last_batch' = batch
             /\ n_cand' = n_cand + Len(batch)
             /\ IF m.raised
                THEN /\ pc' = "crashed"
                     /\ UNCHANGED <<cards, generated, saved, zero_count>>
                ELSE /\ cards' = cards \o m.new_cards
                     /\ generated' = generated + Len(m.new_cards)
                     /\ saved' = cards \o m.new_cards
                     /\ IF Len(m.new_cards) = 0
                        THEN /\ zero_count' = zero_count + 1
                             /\ pc' = IF zero_count + 1 >= max_zero_batches
                                      THEN "generate_cards_break"
                                      ELSE "generate_cards_sleep"
                        ELSE /\ zero_count' = 0
                             /\ pc' = "generate_cards_sleep"
    /\ UNCHANGED <<script, deck, base, total_new, cat_idx, needed, offset,
                   cap_left, notRun>>

\* generate_cards.py main: the iteration is over, its locals are dead
GenerateCardsSleep ==
    /\ pc = "generate_cards_sleep"
    /\ pc' = "generate_cards_batch"
    /\ merge_from' = <<>>
    /\ last_batch' = <<>>
    /\ UNCHANGED <<script, deck, base, cards, existing_words, total_new, cat_idx,
                   needed, generated, zero_count, offset, cap_left, saved, n_cand,
                   notRun>>

\* generate_cards.py main: the break after max_zero_batches empty batches
GenerateCardsBreak ==
    /\ pc = "generate_cards_break"
    /\ pc' = "generate_cards"
    /\ cat_idx' = cat_idx + 1
    /\ merge_from' = <<>>
    /\ last_batch' = <<>>
    /\ UNCHANGED <<script, deck, base, cards, existing_words, total_new, needed,
                   generated, zero_count, offset, cap_left, saved, n_cand, notRun>>

\* generate_cards.py main: the while loop ends with generated >= needed
GenerateCardsCategoryDone ==
    /\ pc = "generate_cards_batch"
    /\ generated >= needed
    /\ pc' = "generate_cards"
    /\ cat_idx' = cat_idx + 1
    /\ UNCHANGED <<script, deck, base, cards, existing_words, total_new, needed,
                   generated, zero_count, offset, cap_left, saved, merge_from,
                   last_batch, n_cand, notRun>>

\* generate_cards.py main: no category left
GenerateCardsFinish ==
    /\ pc = "generate_cards"
    /\ cat_idx > NumCategories
    /\ pc' = "done"
    /\ UNCHANGED <<runVars, notRun>>

\* generate_from_wordlist.py main: the next tier is skipped or started
WordlistTier ==
    /\ pc = "generate_from_wordlist"
    /\ cat_idx <= Len(Tiers)
    /\ LET tier_generated == count_difficulty(cards, Tiers[cat_idx])
       IN  IF tier_generated >= target_per_tier[Tiers[cat_idx]]
           THEN /\ cat_idx' = cat_idx + 1
                /\ UNCHANGED <<pc, generated, offset>>
           ELSE /\ pc' = "wordlist_batch"
                /\ generated' = tier_generated
                /\ offset' = 0
                /\ UNCHANGED cat_idx
    /\ UNCHANGED <<script, deck, base, cards, existing_words, total_new, needed,
                   zero_count, cap_left, saved, merge_from, last_batch, n_cand,
                   notRun>>

\* generate_from_wordlist.py main: one iteration of
\* while tier_generated < target and offset < len(tier_words),
\* up to its time.sleep
WordlistBatch ==
    /\ pc = "wordlist_batch"
    /\ generated < target_per_tier[Tiers[cat_idx]]
    /\ offset < TierBatches
    /\ offset' = offset + 1
    /\ \E resp \in ServiceResponses :
         LET batch == generate_taboo_batch(resp)
             m == merge_wordlist(cards, existing_words, batch, Tiers[cat_idx])
         IN  /\ existing_words' = m.existing_words
             /\ cards' = m.cards
             /\ merge_from' = cards
             /\ last_batch' = batch
             /\ n_cand' = n_cand + Len(batch)
             /\ IF m.raised
                THEN /\ pc' = "crashed"
                     /\ UNCHANGED <<generated, saved>>
                ELSE /\ generated' = generated + m.added
                     /\ saved' = m.cards
                     /\ pc' = "wordlist_sleep"
    /\ UNCHANGED <<script, deck, base, total_new, cat_idx, needed, zero_count,
                   cap_left, notRun>>

\* generate_from_wordlist.py main: the iteration is over, its locals are dead
WordlistSleep ==
    /\ pc = "wordlist_sleep"
    /\ pc' = "wordlist_batch"
    /\ merge_from' = <<>>
    /\ last_batch' = <<>>
    /\ UNCHANGED <<script, deck, base, cards, existing_words, total_new, cat_idx,
                   needed, generated, zero_count, offset, cap_left, saved, n_cand,
                   notRun>>

\* generate_from_wordlist.py main: the while loop ends
WordlistTierDone ==
    /\ pc = "wordlist_batch"
    /\ ~(generated < target_per_tier[Tiers[cat_idx]] /\ offset < TierBatches)
    /\ pc' = "generate_from_wordlist"
    /\ cat_idx' = cat_idx + 1
    /\ UNCHANGED <<script, deck, base, cards, existing_words, total_new, needed,
                   generated, zero_count, offset, cap_left, saved, merge_from,
                   last_batch, n_cand, notRun>>

\* generate_from_wordlist.py main: no tier left
WordlistFinish ==
    /\ pc = "generate_from_wordlist"
    /\ cat_idx > Len(Tiers)
    /\ pc' = "done"
    /\ UNCHANGED <<runVars, notRun>>

-----------------------------------------------------------------------------
(* review_cards.py: dedupe_taboo_words, and its driver                     *)

\* the loop keeping an entry whenever its lower-cased form is new
RECURSIVE dedupe_by_word_loop(_, _, _, _)
dedupe_by_word_loop(taboo_list_, i, seen, result) ==
    IF i > Len(taboo_list_) THEN result
    ELSE IF lower(taboo_list_[i]) \notin seen
         THEN dedupe_by_word_loop(taboo_list_, i + 1,
                                  seen \cup {lower(taboo_list_[i])},
                                  Append(result, taboo_list_[i]))
         ELSE dedupe_by_word_loop(taboo_list_, i + 1, seen, result)

dedupe_taboo_words_by_word(taboo_list_) ==
    dedupe_by_word_loop(taboo_list_, 1, {}, <<>>)

\* for t in taboo_list: stem = get_stem(t); if stem not in seen_stems: ...
RECURSIVE dedupe_loop(_, _, _, _)
dedupe_loop(taboo_list_, i, seen_stems, result) ==
    IF i > Len(taboo_list_) THEN result
    ELSE IF get_stem_review_cards(taboo_list_[i]) \notin seen_stems
         THEN dedupe_loop(taboo_list_, i + 1,
                          seen_stems \cup {get_stem_review_cards(taboo_list_[i])},
                          Append(result, taboo_list_[i]))
         ELSE dedupe_loop(taboo_list_, i + 1, seen_stems, result)

dedupe_taboo_words(taboo_list_) == dedupe_loop(taboo_list_, 1, {}, <<>>)

\* the longest taboo list handed to dedupe_taboo_words
MaxTaboos == 3

\* taboo words: two stems in several forms and casings, and a word whose
\* suffix the length guard keeps
DedupeWords ==
    { <<"b","u","n">>, <<"b","u","n","s">>, <<"B","u","n">>,
      <<"p","i","e">>, <<"p","i","e","s">>, <<"p","i","e","d">> }

DedupeInit ==
    /\ pc = "dedupe"
    /\ taboo_list \in SeqsUpTo(DedupeWords, MaxTaboos)
    /\ deduped = taboo_list
    /\ deduped_once = <<>>
    /\ dedupe_passes = 0

\* review_cards.py: card['taboo'] = dedupe_taboo_words(card['taboo'])
DedupeTabooWords ==
    /\ pc = "dedupe"
    /\ dedupe_passes < 2
    /\ deduped' = dedupe_taboo_words(deduped)
    /\ deduped_once' = deduped
    /\ dedupe_passes' = dedupe_passes + 1
    /\ UNCHANGED <<pc, taboo_list, batchVars, cleanVars, reviewVars, reclassVars, stemVars,
                   tabooVars, capVars, runVars>>

-----------------------------------------------------------------------------
(* Batch driver: add_cards' generate_cards_batch is handed one response    *)

\* taboo lists for the word 'ox' of which 2 entries are legal, and a list
\* of 3 legal entries
TabooTwoGood == <<W_ox, W_OX, W_Ox, T_cow, T_moo>>
TabooThree == <<T_cow, T_moo, T_hay>>

\* card objects of a response: well-formed with 5, 4, 3 and 2 legal taboo
\* words, with a word of three tokens, without 'taboo', without 'word'
BatchPool ==
    { Card(W_OX, TabooPlain, "hard", 0),
      Card(W_ox, TabooWithOx, "easy", 0),
      Card(W_emu, TabooThree, "easy", 0),
      Card(W_ox, TabooTwoGood, "easy", 0),
      Card(W_yak_day_raw, TabooPlain, "easy", 0),
      Card(W_three, TabooPlain, "easy", 0),
      Card(W_Yak_Day, Missing, "easy", 0),
      Card(Missing, TabooPlain, "easy", 0) }

BatchResponses == Responses(BatchPool)

BatchInit ==
    /\ pc = "generate_cards_batch_add_cards"
    /\ resp_in \in BatchResponses
    /\ batch_out = <<>>

\* add_cards.py generate_cards_batch, from the response to the return
GenerateCardsBatchAddCards ==
    /\ pc = "generate_cards_batch_add_cards"
    /\ batch_out' = generate_cards_batch_add_cards(resp_in)
    /\ pc' = "batch_done"
    /\ UNCHANGED <<resp_in, dedupeVars, cleanVars, reviewVars, reclassVars, stemVars,
                   tabooVars, capVars, runVars>>

-----------------------------------------------------------------------------
(* clean_cards.py: main                                                    *)

\* cards = [c for c in cards if len(c['word'].split()) <= 2]
remove_long_words(cs) == SelectSeq(cs, LAMBDA c : Len(split(c.word)) <= 2)

\* the bad_taboos and good_taboos of one card
bad_taboos_of(c) ==
    SelectSeq(c.taboo, LAMBDA t : is_problematic_taboo_clean_cards(c.word, t)[1])

good_taboos_of(c) ==
    SelectSeq(c.taboo, LAMBDA t : ~is_problematic_taboo_clean_cards(c.word, t)[1])

\* Step 2: the cards with a problematic taboo word, each with its position
\* in cards, its bad_taboos and its good_taboos
RECURSIVE find_cards_needing_fixes(_, _)
find_cards_needing_fixes(cs, i) ==
    IF i > Len(cs) THEN <<>>
    ELSE (IF bad_taboos_of(cs[i]) # <<>>
          THEN << [card |-> i, bad_taboos |-> bad_taboos_of(cs[i]),
                   good_taboos |-> good_taboos_of(cs[i])] >>
          ELSE <<>>)
         \o find_cards_needing_fixes(cs, i + 1)

\* batch_size of Step 3
clean_batch_size == 50

\* while len(card['taboo']) < 5: card['taboo'].append("clue")
Clue == <<"c","l","u","e">>

RECURSIVE pad_with_clue(_)
pad_with_clue(taboo) ==
    IF Len(taboo) < 5 THEN pad_with_clue(Append(taboo, Clue)) ELSE taboo

\* Step 4 without the fallback loop of lines 152-153
fixed_taboo_unpadded(fix, new_taboos) ==
    first_five(
        fix.good_taboos
        \o SubSeq(new_taboos, 1,
                  IF Len(new_taboos) < Len(fix.bad_taboos)
                  THEN Len(new_taboos) ELSE Len(fix.bad_taboos)))

\* Step 4 for one entry of cards_needing_fixes
fixed_taboo(fix, new_taboos) ==
    pad_with_clue(first_five(
        fix.good_taboos
        \o SubSeq(new_taboos, 1,
                  IF Len(new_taboos) < Len(fix.bad_taboos)
                  THEN Len(new_taboos) ELSE Len(fix.bad_taboos))))

\* Step 4: for card, bad_taboos, good_taboos in cards_needing_fixes
RECURSIVE apply_fixes(_, _, _, _)
apply_fixes(cs, fixes, replacements, k) ==
    IF k > Len(fixes) THEN cs
    ELSE LET i == fixes[k].card
         IN  IF cs[i].word \in DOMAIN replacements
             THEN apply_fixes(
                      [cs EXCEPT ![i].taboo = fixed_taboo(fixes[k], replacements[cs[i].word])],
                      fixes, replacements, k + 1)
             ELSE apply_fixes(cs, fixes, replacements, k + 1)

\* the most cards cards.json holds when clean_cards or review_cards starts
MaxCards == 2

\* cards of cards.json: with one illegal taboo word, with three legal
\* ones and no other, with a word of three tokens, with five legal ones,
\* with three illegal ones
CleanPool ==
    { Card(W_Ox, TabooWithOx, "easy", 0),
      Card(W_emu, TabooThree, "easy", 0),
      Card(W_three, TabooPlain, "easy", 0),
      Card(W_Yak_day, TabooPlain, "easy", 0),
      Card(W_OX, TabooTwoGood, "easy", 0) }

CleanCollections == ListsOf(CleanPool, MaxCards)

\* answers of get_replacement_taboos: an exception, or a mapping from
\* words to lists of replacement words
ReplacementResponses ==
    { [ok |-> FALSE, map |-> <<>>],
      [ok |-> TRUE, map |-> <<>>],
      [ok |-> TRUE, map |-> (W_Ox :> <<>>)],
      [ok |-> TRUE, map |-> (W_Ox :> <<T_fur, T_cow>>)],
      [ok |-> TRUE, map |-> (W_Ox :> <<W_OX>>) @@ (W_OX :> <<T_pen, T_fur, T_hay>>)],
      [ok |-> TRUE, map |-> (W_OX :> <<T_pen, T_fur>>)] }

CleanInit ==
    /\ script = "clean_cards"
    /\ pc = "clean_cards"
    /\ base \in CleanCollections
    /\ cards = base
    /\ saved = base
    /\ offset = 0
    /\ cards_needing_fixes = <<>>
    /\ all_replacements = <<>>
    /\ deck = <<>> /\ existing_words = {} /\ total_new = 0 /\ cat_idx = 0
    /\ needed = 0 /\ generated = 0 /\ zero_count = 0 /\ cap_left = 0
    /\ merge_from = <<>> /\ last_batch = <<>> /\ n_cand = 0

notClean == <<batchVars, dedupeVars, reviewVars, reclassVars, stemVars, tabooVars, capVars,
              runRest, script, base>>

\* Steps 1 and 2, and the return when no card needs a fix
CleanCardsFind ==
    /\ pc = "clean_cards"
    /\ cards' = remove_long_words(cards)
    /\ cards_needing_fixes' = find_cards_needing_fixes(remove_long_words(cards), 1)
    /\ pc' = IF find_cards_needing_fixes(remove_long_words(cards), 1) = <<>>
             THEN "done" ELSE "get_replacement_taboos"
    /\ UNCHANGED <<saved, offset, all_replacements, notClean>>

\* Step 3: one batch; an exception leaves all_replacements as it is
CleanCardsReplacements ==
    /\ pc = "get_replacement_taboos"
    /\ offset * clean_batch_size < Len(cards_needing_fixes)
    /\ \E resp \in ReplacementResponses :
         all_replacements' = IF resp.ok THEN resp.map @@ all_replacements
                             ELSE all_replacements
    /\ offset' = offset + 1
    /\ UNCHANGED <<pc, cards, saved, cards_needing_fixes, notClean>>

\* Steps 4 and 5: apply the fixes and save
CleanCardsApply ==
    /\ pc = "get_replacement_taboos"
    /\ ~(offset * clean_batch_size < Len(cards_needing_fixes))
    /\ cards' = apply_fixes(cards, cards_needing_fixes, all_replacements, 1)
    /\ saved' = apply_fixes(cards, cards_needing_fixes, all_replacements, 1)
    /\ pc' = "done"
    /\ UNCHANGED <<offset, cards_needing_fixes, all_replacements, notClean>>

-----------------------------------------------------------------------------
(* review_cards.py: the module's body                                      *)

\* for card in cards: card['taboo'] = dedupe_taboo_words(card['taboo'])
dedupe_all(cs) ==
    [i \in 1..Len(cs) |-> [cs[i] EXCEPT !.taboo = dedupe_taboo_words(cs[i].taboo)]]

\* Steps 2 and 3: one record for every card with fewer than 5 taboo words
RECURSIVE find_words_needing_fix(_, _)
find_words_needing_fix(cs, i) ==
    IF i > Len(cs) THEN <<>>
    ELSE (IF Len(cs[i].taboo) < 5
          THEN << [word |-> cs[i].word, current_taboos |-> cs[i].taboo,
                   needed |-> 5 - Len(cs[i].taboo)] >>
          ELSE <<>>)
         \o find_words_needing_fix(cs, i + 1)

\* Step 3: all_taboo_words
all_taboo_words(cs) ==
    UNION { {lower(cs[i].taboo[j]) : j \in 1..Len(cs[i].taboo)} : i \in 1..Len(cs) }

\* the batch sizes of Step 4 and Step 5
review_cap_batch_size == 200
review_batch_size == 30

\* the except branch without its test  if w not in capitalization_map
default_capitalization_overwrite(map, batch) == [w \in batch |-> w] @@ map

\* Step 4, except branch: for w in batch: if w not in capitalization_map:
\* capitalization_map[w] = w.  The collections of the model hold fewer
\* than 200 taboo words, so the one batch is all of them.
default_capitalization(map, batch) == map @@ [w \in batch |-> w]

\* card['taboo'] = [capitalization_map.get(t.lower(), t) for t in card['taboo']]
map_get(map, key, default) == IF key \in DOMAIN map THEN map[key] ELSE default

\* a variant that keeps only the cards with a taboo word the map knows
apply_capitalization_mapped_only(cs, map) ==
    LET mapped == [i \in 1..Len(cs) |->
                      [cs[i] EXCEPT !.taboo =
                          [j \in 1..Len(cs[i].taboo) |->
                              map_get(map, lower(cs[i].taboo[j]), cs[i].taboo[j])]]]
    IN  SelectSeq(mapped,
                  LAMBDA c : \E j \in 1..Len(c.taboo) : lower(c.taboo[j]) \in DOMAIN map)

apply_capitalization(cs, map) ==
    [i \in 1..Len(cs) |->
        [cs[i] EXCEPT !.taboo =
            [j \in 1..Len(cs[i].taboo) |->
                map_get(map, lower(cs[i].taboo[j]), cs[i].taboo[j])]]]

\* Step 5, for one card: for new_t in new_taboos[card['word']]
RECURSIVE append_new_taboos(_, _, _, _, _)
append_new_taboos(taboo, existing, new, k, map) ==
    IF k > Len(new) THEN taboo
    ELSE IF lower(new[k]) \notin existing /\ Len(taboo) < 5
         THEN append_new_taboos(Append(taboo, map_get(map, lower(new[k]), new[k])),
                                existing \cup {lower(new[k])}, new, k + 1, map)
         ELSE append_new_taboos(taboo, existing, new, k + 1, map)

\* Step 5 as it would be if a card the service gave nothing for were dropped
supplement_discard_short(cs, new_taboos, map) ==
    SelectSeq(cs, LAMBDA c : Len(c.taboo) >= 5 \/ c.word \in DOMAIN new_taboos)

\* Step 5: for card in cards: if card['word'] in new_taboos
supplement(cs, new_taboos, map) ==
    [i \in 1..Len(cs) |->
        IF cs[i].word \in DOMAIN new_taboos
        THEN [cs[i] EXCEPT !.taboo =
                 append_new_taboos(cs[i].taboo,
                                   {lower(cs[i].taboo[j]) : j \in 1..Len(cs[i].taboo)},
                                   new_taboos[cs[i].word], 1, map)]
        ELSE cs[i]]

\* cards of cards.json: with five taboo words of five stems, with two of
\* one stem among three, with two
ReviewPool ==
    { Card(W_Ox, TabooPlain, "easy", 0),
      Card(W_emu, << <<"b","u","n">>, <<"b","u","n","s">>, T_cow >>, "easy", 0),
      Card(W_OX, << T_moo, <<"p","i","e">> >>, "easy", 0) }

ReviewCollections == ListsOf(ReviewPool, MaxCards)

\* answers of the capitalization request: an exception, or a mapping from
\* lower-case words to their correct form
ReviewCapResponses ==
    { [ok |-> FALSE, map |-> <<>>],
      [ok |-> TRUE, map |-> <<>>],
      [ok |-> TRUE, map |-> (lower(T_cow) :> T_cow) @@ (T_moo :> T_moo)
                            @@ (<<"b","u","n">> :> <<"B","u","n">>)],
      [ok |-> TRUE, map |-> (lower(T_cow) :> lower(T_cow)) @@ (T_moo :> T_moo)
                            @@ (T_hay :> T_hay) @@ (T_pen :> T_pen) @@ (T_fur :> T_fur)
                            @@ (<<"b","u","n">> :> <<"b","u","n">>)
                            @@ (<<"p","i","e">> :> <<"p","i","e">>)] }

\* answers of the request for more taboo words: an exception, or a mapping
\* from words to lists of new taboo words
SupplementResponses ==
    { [ok |-> FALSE, map |-> <<>>],
      [ok |-> TRUE, map |-> <<>>],
      [ok |-> TRUE, map |-> (W_emu :> << <<"b","u","n","s">>, T_fur, T_pen >>)],
      [ok |-> TRUE, map |-> (W_emu :> << T_hay, T_pen, T_fur, T_moo >>)
                            @@ (W_OX :> << <<"P","i","e">>, <<"Z","o","o">>, T_hay, T_fur >>)] }

ReviewInit ==
    /\ script = "review_cards"
    /\ pc = "review_cards"
    /\ base \in ReviewCollections
    /\ cards = base
    /\ saved = base
    /\ offset = 0
    /\ capitalization_map = <<>>
    /\ words_needing_fix = <<>>
    /\ still_short = <<>>
    /\ deck = <<>> /\ existing_words = {} /\ total_new = 0 /\ cat_idx = 0
    /\ needed = 0 /\ generated = 0 /\ zero_count = 0 /\ cap_left = 0
    /\ merge_from = <<>> /\ last_batch = <<>> /\ n_cand = 0

notReview == <<batchVars, dedupeVars, cleanVars, reclassVars, stemVars, tabooVars, capVars,
               runRest, script, base>>

\* Steps 1 to 3: deduplicate every card, list the cards needing more
ReviewDedupe ==
    /\ pc = "review_cards"
    /\ cards' = dedupe_all(cards)
    /\ words_needing_fix' = find_words_needing_fix(dedupe_all(cards), 1)
    /\ pc' = "capitalization"
    /\ UNCHANGED <<saved, offset, capitalization_map, still_short, notReview>>

\* Step 4: one batch of the capitalization loop
ReviewCapitalizationBatch ==
    /\ pc = "capitalization"
    /\ offset * review_cap_batch_size < Cardinality(all_taboo_words(cards))
    /\ \E resp \in ReviewCapResponses :
         capitalization_map' =
             IF resp.ok THEN resp.map @@ capitalization_map
             ELSE default_capitalization(capitalization_map, all_taboo_words(cards))
    /\ offset' = offset + 1
    /\ UNCHANGED <<pc, cards, saved, words_needing_fix, still_short, notReview>>

\* the capitalization loop is over: apply the map to every card
ReviewApplyCapitalization ==
    /\ pc = "capitalization"
    /\ ~(offset * review_cap_batch_size < Cardinality(all_taboo_words(cards)))
    /\ cards' = apply_capitalization(cards, capitalization_map)
    /\ offset' = 0
    /\ pc' = "supplement"
    /\ UNCHANGED <<saved, capitalization_map, words_needing_fix, still_short,
                   notReview>>

\* Step 5: one batch; an exception leaves the cards as they are
ReviewSupplementBatch ==
    /\ pc = "supplement"
    /\ offset * review_batch_size < Len(words_needing_fix)
    /\ \E resp \in SupplementResponses :
         cards' = IF resp.ok THEN supplement(cards, resp.map, capitalization_map)
                  ELSE cards
    /\ offset' = offset + 1
    /\ UNCHANGED <<pc, saved, capitalization_map, words_needing_fix, still_short,
                   notReview>>

\* Final check, and save
ReviewSave ==
    /\ pc = "supplement"
    /\ ~(offset * review_batch_size < Len(words_needing_fix))
    /\ still_short' = SelectSeq(cards, LAMBDA c : Len(c.taboo) < 5)
    /\ saved' = cards
    /\ pc' = "done"
    /\ UNCHANGED <<cards, offset, capitalization_map, words_needing_fix, notReview>>

-----------------------------------------------------------------------------
(* fix_taboo_caps.py: the module's body                                    *)

\* batch_size of fix_taboo_caps: 200 in the source, scaled down so that a
\* collection of the model fills more than one batch
caps_batch_size == 2

\* taboo_list = list(all_taboo_words): the words of a set in some order
ListsOfSet(S) ==
    {L \in [1..Cardinality(S) -> S] : \A i, j \in 1..Cardinality(S) : L[i] = L[j] => i = j}

\* batch = taboo_list[i:i+batch_size], as a set; i counted in batches
caps_batch(L, i) ==
    {L[k] : k \in {k \in 1..Len(L) : i * caps_batch_size < k /\ k <= (i + 1) * caps_batch_size}}

\* cards of cards.json
FixCapsPool ==
    { Card(W_Ox, <<T_cow, T_moo>>, "easy", 0),
      Card(W_emu, <<T_hay, lower(T_cow)>>, "easy", 0),
      Card(W_OX, <<T_pen, <<"M","o","o">> >>, "easy", 0) }

FixCapsCollections == ListsOf(FixCapsPool, MaxCards)

\* answers of the capitalization request: an exception, or a mapping from
\* lower-case words to their correct form
FixCapsResponses ==
    { [ok |-> FALSE, map |-> <<>>],
      [ok |-> TRUE, map |-> <<>>],
      [ok |-> TRUE, map |-> (lower(T_cow) :> T_cow) @@ (T_moo :> <<"M","o","o">>)
                            @@ (T_hay :> T_hay) @@ (T_pen :> T_pen)],
      [ok |-> TRUE, map |-> (T_hay :> <<"H","a","y">>)] }

FixCapsInit ==
    /\ script = "fix_taboo_caps"
    /\ pc = "fix_taboo_caps"
    /\ base \in FixCapsCollections
    /\ cards = base
    /\ saved = base
    /\ offset = 0
    /\ taboo_list = <<>>
    /\ capitalization_map = <<>>
    /\ resp_in = <<>>
    /\ deck = <<>> /\ existing_words = {} /\ total_new = 0 /\ cat_idx = 0
    /\ needed = 0 /\ generated = 0 /\ zero_count = 0 /\ cap_left = 0
    /\ merge_from = <<>> /\ last_batch = <<>> /\ n_cand = 0

notFixCaps == <<batch_out, deduped, deduped_once, dedupe_passes, cleanVars,
                words_needing_fix, still_short, reclassVars, stemVars, tabooVars,
                capVars, runRest, script, base>>

\* lines 16-27: the unique taboo words, lower-cased, as a list
FixCapsCollect ==
    /\ pc = "fix_taboo_caps"
    /\ taboo_list' \in ListsOfSet(all_taboo_words(cards))
    /\ pc' = "caps_batch"
    /\ UNCHANGED <<cards, saved, offset, capitalization_map, resp_in, notFixCaps>>

\* lines 29-65: one batch; resp_in keeps the answer to the request
FixCapsBatch ==
    /\ pc = "caps_batch"
    /\ offset * caps_batch_size < Len(taboo_list)
    /\ \E resp \in FixCapsResponses :
         /\ resp_in' = resp
         /\ capitalization_map' =
                IF resp.ok THEN resp.map @@ capitalization_map
                ELSE default_capitalization(capitalization_map,
                                            caps_batch(taboo_list, offset))
    /\ offset' = offset + 1
    /\ UNCHANGED <<pc, cards, saved, taboo_list, notFixCaps>>

\* lines 67-74: apply the corrections and save
FixCapsSave ==
    /\ pc = "caps_batch"
    /\ ~(offset * caps_batch_size < Len(taboo_list))
    /\ cards' = apply_capitalization(cards, capitalization_map)
    /\ saved' = apply_capitalization(cards, capitalization_map)
    /\ pc' = "done"
    /\ UNCHANGED <<offset, taboo_list, capitalization_map, resp_in, notFixCaps>>

-----------------------------------------------------------------------------
(* reclassify_hard_expert.py: main                                         *)

\* A dict is a sequence of <<key, value>> pairs with distinct keys, in
\* insertion order.
dict_keys(d) == {d[i][1] : i \in 1..Len(d)}

dict_get(d, key) == d[CHOOSE i \in 1..Len(d) : d[i][1] = key][2]

\* d[key] = value
dict_set(d, key, value) ==
    IF key \in dict_keys(d)
    THEN [i \in 1..Len(d) |-> IF d[i][1] = key THEN <<key, value>> ELSE d[i]]
    ELSE Append(d, <<key, value>>)

\* d.update(r)
RECURSIVE dict_update(_, _, _)
dict_update(d, r, k) ==
    IF k > Len(r) THEN d
    ELSE dict_update(dict_set(d, r[k][1], r[k][2]), r, k + 1)

\* lines 81-87: the value of the first key equal to w but for case
first_lower_match(d, w) ==
    d[CHOOSE i \in 1..Len(d) :
          /\ lower(d[i][1]) = lower(w)
          /\ \A j \in 1..(i - 1) : lower(d[j][1]) # lower(w)][2]

\* the lookup as it would be if the first key equal but for case won over
\* the exact key
reclassified_lower_first(c, d) ==
    IF lower(c.word) \in {lower(k) : k \in dict_keys(d)}
    THEN first_lower_match(d, c.word)
    ELSE c.difficulty

\* lines 71-87 for one card: the difficulty it ends with
reclassified(c, d) ==
    IF c.word \in dict_keys(d) THEN dict_get(d, c.word)
    ELSE IF lower(c.word) \in {lower(k) : k \in dict_keys(d)}
         THEN first_lower_match(d, c.word)
         ELSE c.difficulty

apply_reclassifications(cs, d) ==
    [i \in 1..Len(cs) |-> [cs[i] EXCEPT !.difficulty = reclassified(cs[i], d)]]

\* changed += 1 for every card whose old difficulty is not the new one
RECURSIVE count_changed(_, _, _)
count_changed(cs, d, i) ==
    IF i > Len(cs) THEN 0
    ELSE (IF reclassified(cs[i], d) # cs[i].difficulty THEN 1 ELSE 0)
         + count_changed(cs, d, i + 1)

\* BATCH_SIZE: 200 in the source, scaled down so that a collection of the
\* model fills more than one batch
BATCH_SIZE == 1

\* cards of new_hard_expert_cards.json
ReclassifyPool ==
    { Card(W_Ox, TabooPlain, "hard", 0),
      Card(W_OX, TabooPlain, "expert", 0),
      Card(W_emu, TabooThree, "hard", 0) }

ReclassifyCollections == ListsOf(ReclassifyPool, MaxCards)

\* what reclassify_batch returns: {} after an exception, or the service's
\* mapping from words to difficulties
ReclassifyResults ==
    { <<>>,
      << <<W_ox, "easy">>, <<W_Ox, "medium">> >>,
      << <<W_OX, "expert">> >>,
      << <<W_emu, "hard">>, <<W_ox, "medium">> >> }

ReclassifyInit ==
    /\ script = "reclassify_hard_expert"
    /\ pc = "reclassify_batch"
    /\ base \in ReclassifyCollections
    /\ cards = base
    /\ saved = <<>>
    /\ offset = 0
    /\ classifications = <<>>
    /\ changed = 0
    /\ deck = <<>> /\ existing_words = {} /\ total_new = 0 /\ cat_idx = 0
    /\ needed = 0 /\ generated = 0 /\ zero_count = 0 /\ cap_left = 0
    /\ merge_from = <<>> /\ last_batch = <<>> /\ n_cand = 0

notReclassify == <<batchVars, dedupeVars, cleanVars, reviewVars, stemVars,
                   tabooVars, capVars, runRest, script, base>>

\* lines 60-67: one batch
ReclassifyBatch ==
    /\ pc = "reclassify_batch"
    /\ offset * BATCH_SIZE < Len(cards)
    /\ \E result \in ReclassifyResults :
         classifications' = dict_update(classifications, result, 1)
    /\ offset' = offset + 1
    /\ UNCHANGED <<pc, cards, saved, changed, notReclassify>>

\* lines 69-101: apply the reclassifications, count, save
ReclassifyApply ==
    /\ pc = "reclassify_batch"
    /\ ~(offset * BATCH_SIZE < Len(cards))
    /\ cards' = apply_reclassifications(cards, classifications)
    /\ changed' = count_changed(cards, classifications, 1)
    /\ saved' = apply_reclassifications(cards, classifications)
    /\ pc' = "done"
    /\ UNCHANGED <<offset, classifications, notReclassify>>

-----------------------------------------------------------------------------
(* add_more_cards.py: the module's body                                    *)

\* target of add_more_cards
add_more_target == 260

\* lines 75-87: the loop over the cards of one answer; a card without
\* 'word' or (once past the token test) without 'taboo', or with a word of
\* blanks only, raises, and the cards appended before it stay
RECURSIVE add_more_loop(_, _, _, _, _, _)
add_more_loop(cs, ex, added, new_cards, i, category) ==
    IF i > Len(new_cards)
    THEN [cards |-> cs, existing_words |-> ex, added |-> added, raised |-> FALSE]
    ELSE IF new_cards[i].word = Missing
    THEN [cards |-> cs, existing_words |-> ex, added |-> added, raised |-> TRUE]
    ELSE IF Len(split(new_cards[i].word)) > 2
    THEN add_more_loop(cs, ex, added, new_cards, i + 1, category)
    ELSE IF fix_cap(new_cards[i].word) = IndexError \/ new_cards[i].taboo = Missing
    THEN [cards |-> cs, existing_words |-> ex, added |-> added, raised |-> TRUE]
    ELSE LET word == fix_cap(new_cards[i].word)
             kept == SelectSeq(new_cards[i].taboo,
                               LAMBDA t : ~is_bad_taboo(word, t))
             good_taboos == [j \in 1..Len(kept) |-> lower(kept[j])]
         IN  IF Len(good_taboos) >= 3 /\ lower(word) \notin ex
             THEN add_more_loop(
                      Append(cs, [new_cards[i] EXCEPT !.word = word,
                                                      !.taboo = first_five(good_taboos),
                                                      !.category = category]),
                      ex \cup {lower(word)}, added + 1, new_cards, i + 1, category)
             ELSE add_more_loop(cs, ex, added, new_cards, i + 1, category)

AddMoreInit ==
    /\ script = "add_more_cards"
    /\ pc = "add_more_cards"
    /\ base \in BaseCollections
    /\ cards = base
    /\ saved = base
    /\ existing_words = LowerWords(base)
    /\ total_new = 0
    /\ cat_idx = 1
    /\ deck = <<>> /\ needed = 0 /\ generated = 0 /\ zero_count = 0 /\ offset = 0
    /\ cap_left = 0 /\ merge_from = <<>> /\ last_batch = <<>> /\ n_cand = 0

\* lines 47-92: one iteration of  for cat in categories; total_added is
\* total_new
AddMoreCategory ==
    /\ pc = "add_more_cards"
    /\ cat_idx <= NumCategories
    /\ total_new < add_more_target
    /\ \E resp \in ServiceResponsesAddCards :
         IF resp.ok
         THEN LET m == add_more_loop(cards, existing_words, 0, resp.cards, 1, cat_idx)
              IN  /\ cards' = m.cards
                  /\ existing_words' = m.existing_words
                  /\ total_new' = IF m.raised THEN total_new ELSE total_new + m.added
         ELSE UNCHANGED <<cards, existing_words, total_new>>
    /\ cat_idx' = cat_idx + 1
    /\ UNCHANGED <<pc, script, deck, base, needed, generated, zero_count, offset,
                   cap_left, saved, merge_from, last_batch, n_cand, notRun>>

\* lines 94-95: the loop is over, the collection is saved
AddMoreSave ==
    /\ pc = "add_more_cards"
    /\ ~(cat_idx <= NumCategories /\ total_new < add_more_target)
    /\ saved' = cards
    /\ pc' = "done"
    /\ UNCHANGED <<script, deck, base, cards, existing_words, total_new, cat_idx,
                   needed, generated, zero_count, offset, cap_left, merge_from,
                   last_batch, n_cand, notRun>>

-----------------------------------------------------------------------------
(* Specifications                                                          *)

StemNext == StemAddCards \/ StemCleanCards \/ StemReviewCards

SpecStemInit == StemInit /\ TabooIdle /\ CapIdle /\ RunIdle /\ RepairIdle

SpecStem == SpecStemInit /\ [][StemNext]_vars

TabooNext == TabooAddCards \/ TabooCleanCards \/ TabooAddMoreCards

SpecTabooInit == TabooInit /\ StemIdle /\ CapIdle /\ RunIdle /\ RepairIdle

SpecTaboo == SpecTabooInit /\ [][TabooNext]_vars

CapNext == ApplyFixCapitalization \/ ApplyFixCap

SpecCapInit == CapInit /\ StemIdle /\ TabooIdle /\ RunIdle /\ RepairIdle

SpecCap == SpecCapInit /\ [][CapNext]_vars

BatchNext == GenerateCardsBatchAddCards

SpecBatchInit ==
    BatchInit /\ DedupeIdle /\ CleanIdle /\ ReviewIdle /\ ReclassIdle /\ StemIdle /\ TabooIdle
    /\ CapIdle /\ RunIdle

SpecBatch == SpecBatchInit /\ [][BatchNext]_vars

DedupeNext == DedupeTabooWords

SpecDedupeInit ==
    DedupeInit /\ BatchIdle /\ CleanIdle /\ ReviewIdle /\ ReclassIdle /\ StemIdle /\ TabooIdle
    /\ CapIdle /\ RunIdle

SpecDedupe == SpecDedupeInit /\ [][DedupeNext]_vars

CleanNext == CleanCardsFind \/ CleanCardsReplacements \/ CleanCardsApply

SpecCleanInit ==
    CleanInit /\ BatchIdle /\ DedupeIdle /\ ReviewIdle /\ ReclassIdle /\ StemIdle /\ TabooIdle
    /\ CapIdle

SpecClean == SpecCleanInit /\ [][CleanNext]_vars

ReviewNext ==
    \/ ReviewDedupe
    \/ ReviewCapitalizationBatch
    \/ ReviewApplyCapitalization
    \/ ReviewSupplementBatch
    \/ ReviewSave

SpecReviewInit ==
    ReviewInit /\ BatchIdle /\ DedupeIdle /\ CleanIdle /\ ReclassIdle /\ StemIdle /\ TabooIdle
    /\ CapIdle

SpecReview == SpecReviewInit /\ [][ReviewNext]_vars

FixCapsNext == FixCapsCollect \/ FixCapsBatch \/ FixCapsSave

SpecFixCapsInit ==
    /\ FixCapsInit
    /\ batch_out = <<>> /\ deduped = <<>> /\ deduped_once = <<>> /\ dedupe_passes = 0
    /\ CleanIdle /\ words_needing_fix = <<>> /\ still_short = <<>> /\ ReclassIdle
    /\ StemIdle /\ TabooIdle /\ CapIdle

SpecFixCaps == SpecFixCapsInit /\ [][FixCapsNext]_vars

ReclassifyNext == ReclassifyBatch \/ ReclassifyApply

SpecReclassifyInit ==
    ReclassifyInit /\ BatchIdle /\ DedupeIdle /\ CleanIdle /\ ReviewIdle
    /\ StemIdle /\ TabooIdle /\ CapIdle

SpecReclassify == SpecReclassifyInit /\ [][ReclassifyNext]_vars

RunNext ==
    \/ AddCardsCategory \/ AddCardsSleep \/ AddCardsLoopEnd
    \/ FixAllCapitalizationBatch \/ AddCardsSave
    \/ GenerateCardsCategory \/ GenerateCardsBatch \/ GenerateCardsSleep
    \/ GenerateCardsBreak \/ GenerateCardsCategoryDone \/ GenerateCardsFinish
    \/ WordlistTier \/ WordlistBatch \/ WordlistSleep \/ WordlistTierDone
    \/ WordlistFinish

SpecInit == RunInit /\ StemIdle /\ TabooIdle /\ CapIdle /\ RepairIdle

Spec == SpecInit /\ [][RunNext]_vars

AddCardsNext ==
    \/ AddCardsCategory \/ AddCardsSleep \/ AddCardsLoopEnd
    \/ FixAllCapitalizationBatch \/ AddCardsSave

AddMoreNext == AddMoreCategory \/ AddMoreSave

\* generate_cards or generate_from_wordlist is stopped while a request is
\* out, or has crashed, and is started again: main loads what is on disk
Restart ==
    /\ script \in {"generate_cards", "generate_from_wordlist"}
    /\ pc \in {"generate_cards_batch", "wordlist_batch", "crashed"}
    /\ pc' = script
    /\ base' = saved
    /\ cards' = saved
    /\ existing_words' = LowerWords(deck) \cup LowerWords(saved)
    /\ cat_idx' = 1
    /\ needed' = 0 /\ generated' = 0 /\ zero_count' = 0 /\ offset' = 0
    /\ merge_from' = <<>> /\ last_batch' = <<>> /\ n_cand' = 0
    /\ UNCHANGED <<script, deck, total_new, cap_left, saved, notRun>>

GenerateCardsNext ==
    \/ GenerateCardsCategory \/ GenerateCardsBatch \/ GenerateCardsSleep
    \/ GenerateCardsBreak \/ GenerateCardsCategoryDone \/ GenerateCardsFinish

WordlistNext ==
    \/ WordlistTier \/ WordlistBatch \/ WordlistSleep \/ WordlistTierDone
    \/ WordlistFinish

RestartNext == GenerateCardsNext \/ WordlistNext \/ Restart

\* the first run finds no collection file of its own; every later one
\* loads what the run before it left
SpecRestartInit ==
    SpecInit /\ script \in {"generate_cards", "generate_from_wordlist"} /\ base = <<>>

\* the two generators, stopped and started again any number of times
SpecRestart == SpecRestartInit /\ [][RestartNext]_vars

\* the stages that work on cards.json, each started on a collection it may
\* find there
PipelineInit ==
    \/ SpecInit /\ script \in {"add_cards", "generate_cards"}
    \/ AddMoreInit /\ StemIdle /\ TabooIdle /\ CapIdle /\ RepairIdle
    \/ SpecReviewInit
    \/ SpecFixCapsInit

PipelineNext ==
    AddCardsNext \/ GenerateCardsNext \/ AddMoreNext \/ ReviewNext \/ FixCapsNext

SpecPipeline == PipelineInit /\ [][PipelineNext]_vars

SpecGenerateCardsInit == SpecInit /\ script = "generate_cards"

\* generate_cards alone, every step of main taken sooner or later
SpecGenerateCards ==
    SpecGenerateCardsInit /\ [][GenerateCardsNext]_vars /\ WF_vars(GenerateCardsNext)

-----------------------------------------------------------------------------
(* Claims about the stemmer                                                *)

\* the suffix table of the specification, in its priority order
SuffixesSpec ==
    << <<"t","i","o","n">>, <<"n","e","s","s">>, <<"i","e","s">>,
       <<"m","e","n","t">>, <<"i","n","g">>, <<"e","d">>, <<"e","r">>,
       <<"e","s","t">>, <<"l","y">>, <<"e","s">>, <<"s">> >>

\* the reference Stem: strip the first suffix, in the specification's order,
\* that ends the lower-cased word and leaves len(w) > len(suffix) + 2
RefStem(word) ==
    LET w == lower(word)
        applies(i) == endswith(w, SuffixesSpec[i]) /\ Len(w) > Len(SuffixesSpec[i]) + 2
    IN  IF \E i \in 1..Len(SuffixesSpec) : applies(i)
        THEN LET first == CHOOSE i \in 1..Len(SuffixesSpec) :
                              applies(i) /\ \A j \in 1..(i - 1) : ~applies(j)
             IN  SubSeq(w, 1, Len(w) - Len(SuffixesSpec[first]))
        ELSE w

\* C3: for every word, each of the three get_stem copies returns the
\* reference Stem of the word (suffixes tried in the order tion, ness, ies,
\* ment, ing, ed, er, est, ly, es, s), so the three copies agree.
C3_StemEqualsReference ==
    pc = "stem_done" =>
        /\ stem_out.add_cards = RefStem(word_in)
        /\ stem_out.clean_cards = RefStem(word_in)
        /\ stem_out.review_cards = RefStem(word_in)

ListedSuffixes == {SuffixesSpec[i] : i \in 1..Len(SuffixesSpec)}

SuffixApplies(w, sfx) == endswith(w, sfx) /\ Len(w) > Len(sfx) + 2

C4_StemShape(out, w, own) ==
    /\ startswith(w, out)
    /\ \/ out = w
       \/ Len(out) >= 3 /\ \E sfx \in ListedSuffixes : w = out \o sfx
    /\ (\A sfx \in ListedSuffixes : ~SuffixApplies(w, sfx)) => out = w
    /\ (\E i \in 1..Len(own) : SuffixApplies(w, own[i])) => out # w

\* C4: for every word w, get_stem(w) is a prefix of lowercase(w); it is
\* lowercase(w) itself or a string of length >= 3 obtained by removing
\* exactly one listed suffix; when no listed suffix both ends w and passes
\* the length guard the result is lowercase(w); and a suffix that matches
\* but fails the guard does not stop the copy from stripping a suffix of
\* its own list that passes it.
C4_StemIsGuardedPrefix ==
    pc = "stem_done" =>
        /\ C4_StemShape(stem_out.add_cards, lower(word_in), SuffixesValidator)
        /\ C4_StemShape(stem_out.clean_cards, lower(word_in), SuffixesValidator)
        /\ C4_StemShape(stem_out.review_cards, lower(word_in), SuffixesReview)

\* a word with a capital from which a suffix was stripped although another
\* listed suffix ends it and fails the length guard
C4_Witness ==
    /\ pc = "stem_done"
    /\ word_in # lower(word_in)
    /\ stem_out.clean_cards # lower(word_in)
    /\ stem_out.review_cards # lower(word_in)
    /\ \E sfx \in ListedSuffixes :
          endswith(lower(word_in), sfx) /\ ~SuffixApplies(lower(word_in), sfx)

-----------------------------------------------------------------------------
(* Claims about the taboo validators                                       *)

\* the candidate has a whitespace character between two other characters
HasInternalWhitespace(c) ==
    \E i, j, k \in 1..Len(c) :
        /\ i < j /\ j < k
        /\ c[i] \notin Whitespace /\ c[j] \in Whitespace /\ c[k] \notin Whitespace

\* the five conditions, on target' and cand'
FiveConditions(t, c) ==
    LET t2 == remove_spaces(lower(t))
        c2 == lower(c)
    IN  \/ HasInternalWhitespace(c)
        \/ c2 = t2
        \/ Len(c2) >= 3 /\ contains(t2, c2)
        \/ Len(t2) >= 3 /\ contains(c2, t2)
        \/ get_stem_add_cards(t2) = get_stem_add_cards(c2)

\* C1: for every target and candidate, is_problematic_taboo of add_cards
\* and of clean_cards report the candidate as problematic exactly when one
\* of the five conditions holds (internal whitespace, equality, candidate
\* of length >= 3 inside the target, target of length >= 3 inside the
\* candidate, equal stems), so the two scripts give the same verdict.
C1_ProblematicIffFiveConditions ==
    pc = "taboo_done" =>
        /\ verdict.add_cards = FiveConditions(target, cand)
        /\ verdict.clean_cards[1] = FiveConditions(target, cand)

\* C2: every validator that accepts or rejects a generated card's taboo
\* word (add_cards is_problematic_taboo, add_more_cards is_bad_taboo)
\* rejects a candidate whose stem equals the stem of the target with its
\* spaces removed.
C2_EqualStemsRejected ==
    pc = "taboo_done" =>
        (get_stem_add_cards(remove_spaces(lower(target))) = get_stem_add_cards(lower(cand))
            => verdict.add_cards = TRUE /\ verdict.add_more_cards = TRUE)

-----------------------------------------------------------------------------
(* Claims about the capitalization normalizers                             *)

IsLetterPair(lo, up) == \E i \in 1..26 : LowerLetters[i] = lo /\ UpperLetters[i] = up

IsLowerLetter(c) == \E i \in 1..26 : LowerLetters[i] = c

IsUpperLetter(c) == \E i \in 1..26 : UpperLetters[i] = c

\* out is c with its case raised (a lower-case letter becomes its capital)
RaisedTo(c, out) == IF IsLowerLetter(c) THEN IsLetterPair(c, out) ELSE out = c

\* out is c with its case lowered (a capital becomes its lower-case letter)
LoweredTo(c, out) == IF IsUpperLetter(c) THEN IsLetterPair(out, c) ELSE out = c

IsSingleToken(p) == p # <<>> /\ \A i \in 1..Len(p) : p[i] \notin Whitespace

\* C5: for every phrase that is a single token w, fix_capitalization and
\* fix_cap return w with its first character upper-cased and every other
\* character lower-cased.
C5_SingleTokenCapitalized ==
    (passes = 1 /\ IsSingleToken(phrase)) =>
        /\ cur # IndexError
        /\ Len(cur) = Len(phrase)
        /\ RaisedTo(phrase[1], cur[1])
        /\ \A i \in 2..Len(phrase) : LoweredTo(phrase[i], cur[i])

\* a single token with capitals after its first character has been normalized
C5_Witness ==
    /\ passes = 1
    /\ IsSingleToken(phrase)
    /\ fn = "fix_cap"
    /\ \E i \in 2..Len(phrase) : phrase[i] # cur[i]
    /\ phrase[1] # cur[1]

\* C6: for every phrase, the empty and the whitespace-only phrase
\* included, normalizing twice gives what normalizing once gives, for
\* fix_capitalization and for fix_cap, and no call raises.
C6_NormalizeIdempotent ==
    /\ cur # IndexError
    /\ passes = 2 => cur = prev

\* what does hold: a call that returns is idempotent
C6_IdempotentWhenReturning ==
    (passes = 2 /\ cur # IndexError) => cur = prev

\* the tokens of p: its maximal runs of non-whitespace characters, from
\* the left
Tokens(p) ==
    LET starts == {i \in 1..Len(p) :
                      p[i] \notin Whitespace /\ (i = 1 \/ p[i - 1] \in Whitespace)}
        nth(n) == CHOOSE i \in starts : Cardinality({j \in starts : j < i}) = n - 1
        last(i) == CHOOSE j \in i..Len(p) :
                      /\ \A k \in i..j : p[k] \notin Whitespace
                      /\ j = Len(p) \/ p[j + 1] \in Whitespace
    IN  [n \in 1..Cardinality(starts) |-> SubSeq(p, nth(n), last(nth(n)))]

\* b is a with every capital lowered
LoweredToken(a, b) ==
    Len(a) = Len(b) /\ \A i \in 1..Len(a) : LoweredTo(a[i], b[i])

\* the lower-case word set of the normalizer that ran
LowercaseSetOf(f) == IF f = "fix_capitalization" THEN lowercase_words ELSE lowercases

C7_LaterToken(a, b, lowerset) ==
    /\ IF \E w \in lowerset : LoweredToken(a, w)
       THEN LoweredToken(a, b)
       ELSE b = a
    /\ Len(a) = Len(b)
    /\ \A i \in 1..Len(a) : IsLowerLetter(a[i]) => ~IsUpperLetter(b[i])

\* C7: for every phrase of two or more tokens, fix_capitalization and
\* fix_cap return the same number of tokens in the same order, joined by
\* single blanks; the first token has its first letter upper-cased and the
\* rest lower-cased; every later token is lower-cased when its lower-case
\* form is in the normalizer's lower-case word set and is otherwise as
\* given; so no later token gains a capital where it had a small letter.
C7_MultiTokenNormalized ==
    LET given == Tokens(phrase)
    IN  (passes = 1 /\ Len(given) >= 2) =>
            /\ cur # IndexError
            /\ LET got == Tokens(cur)
               IN  /\ Len(got) = Len(given)
                   /\ Len(cur) = Len(SelectSeq(phrase, LAMBDA c : c \notin Whitespace))
                                   + Len(given) - 1
                   /\ Len(got[1]) = Len(given[1])
                   /\ RaisedTo(given[1][1], got[1][1])
                   /\ \A i \in 2..Len(given[1]) : LoweredTo(given[1][i], got[1][i])
                   /\ \A n \in 2..Len(given) :
                         C7_LaterToken(given[n], got[n], LowercaseSetOf(fn))

\* a phrase of three tokens, not separated by single blanks, has been
\* normalized: one later token was lowered, another kept its capitals
C7_Witness ==
    /\ passes = 1
    /\ Len(Tokens(phrase)) = 3
    /\ Len(cur) < Len(phrase)
    /\ \E n, m \in 2..3 :
          /\ Tokens(cur)[n] # Tokens(phrase)[n]
          /\ Tokens(cur)[m] = Tokens(phrase)[m]
          /\ \E i \in 1..Len(Tokens(cur)[m]) : IsUpperLetter(Tokens(cur)[m][i])

-----------------------------------------------------------------------------
(* Claims about the merge loops                                            *)

\* a and b are the same word up to the case of their letters
SameWord(a, b) ==
    /\ Len(a) = Len(b)
    /\ \A i \in 1..Len(a) :
          a[i] = b[i] \/ IsLetterPair(a[i], b[i]) \/ IsLetterPair(b[i], a[i])

\* some card of cs names the word w
Names(cs, w) == \E i \in 1..Len(cs) : SameWord(cs[i].word, w)

\* a merge has just run: last_batch was merged into merge_from
Merged ==
    pc \in {"add_cards_sleep", "generate_cards_sleep", "generate_cards_break",
            "wordlist_sleep"}

\* the collection has been changed by merges only
OnlyMerged ==
    \/ pc \in {"add_cards", "add_cards_sleep", "generate_cards",
               "generate_cards_batch", "generate_cards_sleep",
               "generate_cards_break", "generate_from_wordlist",
               "wordlist_batch", "wordlist_sleep", "crashed"}
    \/ pc = "done" /\ script # "add_cards"

\* the candidates of last_batch whose word no card known before the merge
\* and no earlier candidate names
FirstOccurrences ==
    {i \in 1..Len(last_batch) :
        /\ ~Names(merge_from, last_batch[i].word)
        /\ ~Names(deck, last_batch[i].word)
        /\ \A j \in 1..(i - 1) : ~SameWord(last_batch[j].word, last_batch[i].word)}

NthFirstOccurrence(n) ==
    CHOOSE i \in FirstOccurrences :
        Cardinality({j \in FirstOccurrences : j < i}) = n - 1

\* C8: in add_cards, generate_cards and generate_from_wordlist, a merge
\* appends, in input order, exactly the candidates whose lower-cased word
\* is not the lower-cased word of a card loaded when the run started nor of
\* a candidate appended earlier in the run (same or earlier batch): so the
\* appended cards name pairwise different words that no loaded card names,
\* and duplicates are dropped without an error.
C8_MergeAppendsFirstOccurrences ==
    /\ Merged =>
          /\ Len(cards) = Len(merge_from) + Cardinality(FirstOccurrences)
          /\ \A n \in 1..Cardinality(FirstOccurrences) :
                /\ cards[Len(merge_from) + n].word = last_batch[NthFirstOccurrence(n)].word
                /\ cards[Len(merge_from) + n].taboo = last_batch[NthFirstOccurrence(n)].taboo
    /\ OnlyMerged =>
          \A i \in (Len(base) + 1)..Len(cards) :
              /\ ~Names(base, cards[i].word)
              /\ ~Names(deck, cards[i].word)
              /\ \A j \in (Len(base) + 1)..(i - 1) : ~SameWord(cards[j].word, cards[i].word)

\* after an earlier batch was appended, a batch was merged of which one
\* candidate was dropped for a word known in another casing and a later
\* one was appended
C8_Witness ==
    /\ Merged
    /\ Len(merge_from) > Len(base)
    /\ \E i, j \in 1..Len(last_batch) :
          /\ i < j
          /\ Names(merge_from, last_batch[i].word)
          /\ \A k \in 1..Len(merge_from) : merge_from[k].word # last_batch[i].word
          /\ cards[Len(cards)].word = last_batch[j].word
          /\ Len(cards) = Len(merge_from) + 1

\* C9: merging any sequence of batches leaves the cards loaded when the run
\* started unchanged and in place, as a prefix of the collection, whose
\* length is at least len(base) and at most len(base) plus the number of
\* candidates handed to the merges.
C9_BaseIsPrefix ==
    OnlyMerged =>
        /\ Len(cards) >= Len(base)
        /\ Len(cards) <= Len(base) + n_cand
        /\ \A i \in 1..Len(base) : i <= Len(cards) /\ cards[i] = base[i]

\* add_cards merged a batch into a non-empty collection: one candidate was
\* appended and one dropped
C9_Witness ==
    /\ pc = "add_cards_sleep"
    /\ base # <<>>
    /\ Len(last_batch) = 2
    /\ Len(cards) = Len(merge_from) + 1
    /\ Len(cards) < Len(base) + n_cand

\* no two cards of cs name the same word
DistinctWords(cs) ==
    \A i, j \in 1..Len(cs) : i # j => ~SameWord(cs[i].word, cs[j].word)

\* C10: when the loaded collection has pairwise case-insensitively
\* distinct words, so has the collection add_cards saves at the end of its
\* run, whatever correction maps fix_all_capitalization was given.
C10_SavedWordsDistinct ==
    (script = "add_cards" /\ pc = "done" /\ DistinctWords(base)) => DistinctWords(saved)

-----------------------------------------------------------------------------
(* Claims about the repair and generation stages                           *)

\* the word has at most two tokens
ShortWord(w) == Len(Tokens(w)) <= 2

\* C11: no card whose word has three or more tokens is in the collection
\* an add_cards run produces: a candidate of 3+ tokens is not appended, and
\* no later step of the run, the capitalization corrections included, turns
\* a word of one or two tokens into one of three or more.
C11_NoThreeTokenWords ==
    script = "add_cards" =>
        /\ \A i \in 1..Len(cards) :
              (i > Len(base) \/ ShortWord(base[i].word)) => ShortWord(cards[i].word)
        /\ \A i \in 1..Len(saved) :
              (i > Len(base) \/ ShortWord(base[i].word)) => ShortWord(saved[i].word)

\* what does hold: the merges of add_cards append no word of 3+ tokens
C11_NoThreeTokenWordsMerged ==
    (script = "add_cards" /\ OnlyMerged) =>
        \A i \in (Len(base) + 1)..Len(cards) : ShortWord(cards[i].word)

\* C19: a malformed response of the generation service (here a card
\* object without 'word') never aborts a run of generate_cards, add_cards
\* or generate_from_wordlist: the batch is skipped, the collection is as
\* it was before the batch, and the loop goes on.
C19_MalformedBatchSkipped ==
    (\E i \in 1..Len(last_batch) : last_batch[i].word = Missing) =>
        /\ pc # "crashed"
        /\ cards = merge_from

\* the response parsed and every card object has a 'word'
WordsPresent ==
    resp_in.ok /\ \A i \in 1..Len(resp_in.cards) : resp_in.cards[i].word # Missing

\* the response parsed and every card object has 'word' and 'taboo'
WellFormed ==
    WordsPresent /\ \A i \in 1..Len(resp_in.cards) : resp_in.cards[i].taboo # Missing

\* C13: a candidate card with a word of one or two tokens is never
\* discarded for the number of taboo words that survive the filtering: with
\* fewer than 5 legal taboo words (0, 1 or 2 included) generate_cards_batch
\* still returns it.
C13_KeptWhateverTabooCount ==
    (pc = "batch_done" /\ WellFormed) =>
        Len(batch_out) =
            Cardinality({i \in 1..Len(resp_in.cards) : ShortWord(resp_in.cards[i].word)})

\* the results for the cards of cs, each handed over alone, one after the
\* other
RECURSIVE EachAlone(_)
EachAlone(cs) ==
    IF cs = <<>> THEN <<>>
    ELSE generate_cards_batch_add_cards([ok |-> TRUE, cards |-> <<Head(cs)>>])
            \o EachAlone(Tail(cs))

\* C20: a validation violation on one card (an illegal taboo word, fewer
\* than 5 taboo words, a word of 3+ tokens, a missing 'taboo') does not
\* raise and does not affect the other cards: generate_cards_batch returns
\* for the batch what it returns for its cards one by one.
C20_CardsIndependent ==
    (pc = "batch_done" /\ WordsPresent) => batch_out = EachAlone(resp_in.cards)

\* what does hold: every taboo word generate_cards_batch returns is one
\* the validator accepts for the card's word
C12_BatchTaboosLegal ==
    pc = "batch_done" =>
        \A i \in 1..Len(batch_out) : \A j \in 1..Len(batch_out[i].taboo) :
            ~is_problematic_taboo_add_cards(batch_out[i].word, batch_out[i].taboo[j])

-----------------------------------------------------------------------------
(* Claims about clean_cards                                                *)

\* the validator accepts taboo word t for word w
Accepts(w, t) == ~is_problematic_taboo_clean_cards(w, t)[1]

\* the cards of cards.json that clean_cards does not exclude, in order
OriginalCards == SelectSeq(base, LAMBDA c : ShortWord(c.word))

\* the entries of a card that the validator accepts, in original order
Retained(c) == SelectSeq(c.taboo, LAMBDA t : Accepts(c.word, t))

ElementsOf(L) == {L[i] : i \in 1..Len(L)}

\* C12: once clean_cards has finished, no card of the saved collection holds
\* a taboo entry that the validator reports as problematic for the card's
\* word, whatever the service returned and also for the cards it returned
\* no replacement for.
C12_CleanTaboosLegal ==
    (script = "clean_cards" /\ pc = "done") =>
        \A i \in 1..Len(saved) : \A j \in 1..Len(saved[i].taboo) :
            Accepts(saved[i].word, saved[i].taboo[j])

\* C14: clean_cards invents no taboo word: every entry of a card the
\* service returned replacements for is, after the repair, one of the card's
\* original legal entries or one of the words the service supplied for it.
C14_NoInventedTaboos ==
    (script = "clean_cards" /\ pc = "done" /\ cards_needing_fixes # <<>>) =>
        \A i \in 1..Len(saved) :
            saved[i].word \in DOMAIN all_replacements =>
                ElementsOf(saved[i].taboo) \subseteq
                    ElementsOf(Retained(OriginalCards[i]))
                    \cup ElementsOf(all_replacements[saved[i].word])

\* C17: the retained list of every card is the subsequence of its original
\* entries that the validator accepts, and every card that retains fewer
\* than 5 entries is in the deficient set with its retained entries and a
\* missing count of 5 minus the number retained.
C17_DeficientSet ==
    (script = "clean_cards" /\ pc # "clean_cards") =>
        /\ \A k \in 1..Len(cards_needing_fixes) :
              cards_needing_fixes[k].good_taboos
                  = Retained(OriginalCards[cards_needing_fixes[k].card])
        /\ \A i \in 1..Len(OriginalCards) :
              Len(Retained(OriginalCards[i])) < 5 =>
                  \E k \in 1..Len(cards_needing_fixes) :
                      /\ cards_needing_fixes[k].card = i
                      /\ cards_needing_fixes[k].good_taboos = Retained(OriginalCards[i])
                      /\ Len(cards_needing_fixes[k].bad_taboos)
                             = 5 - Len(Retained(OriginalCards[i]))

-----------------------------------------------------------------------------
(* Claims about review_cards                                               *)

SameStem(a, b) == get_stem_review_cards(a) = get_stem_review_cards(b)

\* the positions of L holding the first entry of their stem
FirstOfStem(L) == {i \in 1..Len(L) : \A j \in 1..(i - 1) : ~SameStem(L[j], L[i])}

\* the n-th position of the set S of positions
NthOf(S, n) == CHOOSE i \in S : Cardinality({j \in S : j < i}) = n - 1

\* no two entries of L have the same stem
StemsDistinct(L) == \A i, j \in 1..Len(L) : i # j => ~SameStem(L[i], L[j])

\* C15: for every taboo list L, dedupe_taboo_words(L) is the subsequence
\* of L, in order, made of the first entry of L for each stem occurring in
\* L; no two of its entries have the same stem; and applying the function
\* twice gives what applying it once gives.
C15_DedupeFirstPerStem ==
    /\ dedupe_passes = 1 =>
          /\ Len(deduped) = Cardinality(FirstOfStem(taboo_list))
          /\ \A n \in 1..Len(deduped) :
                deduped[n] = taboo_list[NthOf(FirstOfStem(taboo_list), n)]
          /\ StemsDistinct(deduped)
    /\ dedupe_passes = 2 => deduped = deduped_once

\* a list of three entries was deduplicated twice: an entry was dropped
\* that differs from the kept entry of its stem, two entries were kept
C15_Witness ==
    /\ dedupe_passes = 2
    /\ Len(taboo_list) = 3
    /\ Len(deduped) = 2
    /\ \E i \in 1..3 : \A n \in 1..2 : taboo_list[i] # deduped[n]

\* C16: in the collection review_cards saves, no card has two taboo entries
\* with the same stem, whatever capitalization map and whatever new taboo
\* words the service returned.
C16_SavedStemsDistinct ==
    (script = "review_cards" /\ pc = "done") =>
        \A i \in 1..Len(saved) : StemsDistinct(saved[i].taboo)

\* C18: in the collection review_cards saves, a taboo entry differs from
\* its lower-case form only if the capitalization map holds an entry for
\* that lower-case form.
C18_CaseOnlyFromMap ==
    (script = "review_cards" /\ pc = "done") =>
        \A i \in 1..Len(saved) : \A j \in 1..Len(saved[i].taboo) :
            saved[i].taboo[j] # lower(saved[i].taboo[j]) =>
                lower(saved[i].taboo[j]) \in DOMAIN capitalization_map

\* what does hold: in the collection an add_cards run saves, every taboo
\* entry of every card is entirely lower-case
C18_AddCardsTaboosLower ==
    (script = "add_cards" /\ pc = "done") =>
        \A i \in 1..Len(saved) : \A j \in 1..Len(saved[i].taboo) :
            saved[i].taboo[j] = lower(saved[i].taboo[j])

-----------------------------------------------------------------------------
(* Claims about what the scripts leave on disk                             *)

\* C22: once clean_cards has run, cards.json holds no card whose word has
\* three or more tokens, whether or not a card had a problematic taboo word
\* and whatever the service answered.
C22_NoLongWordOnDisk ==
    (script = "clean_cards" /\ pc = "done") =>
        \A i \in 1..Len(saved) : ShortWord(saved[i].word)

Min(a, b) == IF a < b THEN a ELSE b

\* the number of entries of a card that the validator rejects
Removed(c) == Len(c.taboo) - Len(Retained(c))

\* card i had an entry removed and the service returned replacements for it
Repaired(i) ==
    /\ Removed(OriginalCards[i]) > 0
    /\ OriginalCards[i].word \in DOMAIN all_replacements

\* C26: in clean_cards, a card the service returned replacements for ends
\* with exactly 5 taboo entries: its retained legal entries first, in
\* original order, then at most as many of the service's replacements as
\* entries were removed, the whole cut to 5 and padded to 5.
C26_RepairedListShape ==
    (script = "clean_cards" /\ pc = "done" /\ cards_needing_fixes # <<>>) =>
        \A i \in 1..Len(saved) :
            Repaired(i) =>
                LET orig == OriginalCards[i]
                    kept == Retained(orig)
                    new  == all_replacements[orig.word]
                    used == Min(Len(new), Removed(orig))
                    out  == saved[i].taboo
                IN  /\ saved[i].word = orig.word
                    /\ Len(out) = 5
                    /\ \A p \in 1..Min(5, Len(kept)) : out[p] = kept[p]
                    /\ \A p \in (Len(kept) + 1)..Min(5, Len(kept) + used) :
                           out[p] = new[p - Len(kept)]

\* a repaired card that took a replacement and needed padding
C26_Witness ==
    /\ script = "clean_cards" /\ pc = "done" /\ cards_needing_fixes # <<>>
    /\ \E i \in 1..Len(saved) :
          /\ Repaired(i)
          /\ Min(Len(all_replacements[saved[i].word]), Removed(OriginalCards[i])) > 0
          /\ Len(Retained(OriginalCards[i]))
               + Min(Len(all_replacements[saved[i].word]), Removed(OriginalCards[i])) < 5

\* the card but for its taboo list
SameCardButTaboo(a, b) == [a EXCEPT !.taboo = b.taboo] = b

\* C23: in review_cards every batch of deficient cards is sent to the
\* supplementation service once and no more; whatever the service returns,
\* the saved collection has the loaded cards in the loaded order, and the
\* final check's still_short is exactly the saved cards with fewer than 5
\* taboo entries.
C23_SupplementOnceSaveAll ==
    script = "review_cards" =>
        /\ pc = "supplement" =>
              offset = 0 \/ (offset - 1) * review_batch_size < Len(words_needing_fix)
        /\ pc = "done" =>
              /\ Len(saved) = Len(base)
              /\ \A i \in 1..Len(base) : SameCardButTaboo(saved[i], base[i])
              /\ still_short = SelectSeq(saved, LAMBDA c : Len(c.taboo) < 5)

\* a card stays short after the one supplementation request, and is saved
C23_Witness ==
    /\ script = "review_cards" /\ pc = "done"
    /\ words_needing_fix # <<>> /\ offset = 1
    /\ still_short # <<>>
    /\ Len(saved) = 2

-----------------------------------------------------------------------------
(* Claims about fix_taboo_caps                                             *)

\* the words of batch number i (from 0) of list L, batch_size words a batch
WordsOfBatch(L, i) ==
    {L[k] : k \in {k \in 1..Len(L) : k > i * caps_batch_size
                                     /\ k <= i * caps_batch_size + caps_batch_size}}

\* a step of the batch loop whose request failed
FailedBatchStep ==
    /\ script = "fix_taboo_caps" /\ pc = "caps_batch"
    /\ offset' = offset + 1
    /\ ~resp_in'.ok

\* what a failed batch does to the map
DefaultsOnly ==
    /\ DOMAIN capitalization_map'
         = DOMAIN capitalization_map \cup WordsOfBatch(taboo_list, offset)
    /\ \A w \in DOMAIN capitalization_map :
          capitalization_map'[w] = capitalization_map[w]
    /\ \A w \in WordsOfBatch(taboo_list, offset) \ DOMAIN capitalization_map :
          capitalization_map'[w] = w /\ w = lower(w)

\* the saved cards have their taboo entries where they were
SamePositions ==
    (script = "fix_taboo_caps" /\ pc = "done") =>
        /\ Len(saved) = Len(base)
        /\ \A i \in 1..Len(base) :
              /\ Len(saved[i].taboo) = Len(base[i].taboo)
              /\ \A j \in 1..Len(base[i].taboo) :
                    \/ saved[i].taboo[j] = base[i].taboo[j]
                    \/ /\ lower(base[i].taboo[j]) \in DOMAIN capitalization_map
                       /\ saved[i].taboo[j]
                            = capitalization_map[lower(base[i].taboo[j])]

\* C29: in fix_taboo_caps, when the request for a batch fails, every word of
\* the batch without a mapping is mapped to itself, lower-case, and no
\* mapping obtained before is overwritten; after the corrections are applied
\* every card has as many taboo entries as before, in the same positions.
C29_FailedBatchDefaults ==
    [][FailedBatchStep => DefaultsOnly]_vars /\ []SamePositions

\* a failed batch met a word that an earlier answer had mapped to another
\* form, and the run went on to save
C29_Witness ==
    /\ script = "fix_taboo_caps" /\ pc = "done"
    /\ offset = 2 /\ ~resp_in.ok
    /\ \E w \in WordsOfBatch(taboo_list, 1) :
          w \in DOMAIN capitalization_map /\ capitalization_map[w] # w

-----------------------------------------------------------------------------
(* Claims about reclassify_hard_expert                                     *)

\* the difficulties the classification gives under a key equal to w
ExactValues(w) ==
    {classifications[k][2] : k \in {k \in 1..Len(classifications) :
                                        classifications[k][1] = w}}

\* the difficulties the classification gives under a key equal to w but
\* for case
AnyCaseValues(w) ==
    {classifications[k][2] : k \in {k \in 1..Len(classifications) :
                                        lower(classifications[k][1]) = lower(w)}}

\* C28: reclassify_hard_expert saves the loaded cards in the loaded order
\* with their word and taboo fields; a card whose word is a key of the
\* classification takes that key's difficulty, otherwise a card whose word
\* is a key but for case takes such a key's difficulty, otherwise the card
\* keeps its difficulty; and changed is the number of cards whose
\* difficulty is not what it was.
C28_OnlyDifficultyChanges ==
    (script = "reclassify_hard_expert" /\ pc = "done") =>
        /\ Len(saved) = Len(base)
        /\ \A i \in 1..Len(base) :
              /\ [saved[i] EXCEPT !.difficulty = base[i].difficulty] = base[i]
              /\ ExactValues(base[i].word) # {} =>
                    saved[i].difficulty \in ExactValues(base[i].word)
              /\ (ExactValues(base[i].word) = {} /\ AnyCaseValues(base[i].word) # {}) =>
                    saved[i].difficulty \in AnyCaseValues(base[i].word)
              /\ AnyCaseValues(base[i].word) = {} =>
                    saved[i].difficulty = base[i].difficulty
        /\ changed = Cardinality({i \in 1..Len(base) :
                                     saved[i].difficulty # base[i].difficulty})

\* a card took the difficulty of its exact key although a key in another
\* casing, with another difficulty, came first; another card changed by a
\* key in another casing
C28_Witness ==
    /\ script = "reclassify_hard_expert" /\ pc = "done"
    /\ \E i \in 1..Len(base) :
          /\ ExactValues(base[i].word) # {}
          /\ AnyCaseValues(base[i].word) # ExactValues(base[i].word)
          /\ saved[i].difficulty # base[i].difficulty
    /\ \E i \in 1..Len(base) :
          /\ ExactValues(base[i].word) = {}
          /\ saved[i].difficulty # base[i].difficulty
    /\ changed = 2

-----------------------------------------------------------------------------
(* Claims about the validator's indifference to case and spaces            *)

\* the candidate in another casing
Recased(s) == {lower(s), capitalize(s)}

\* the candidate with a space before it, after it, or without the spaces
\* around it
Respaced(s) == {<<" ">> \o s, s \o <<" ">>, strip(s)}

\* the target without its spaces, or with one more space inside
TargetRespaced(s) ==
    {remove_spaces(s)}
    \cup {SubSeq(s, 1, k) \o <<" ">> \o SubSeq(s, k + 1, Len(s)) : k \in 1..(Len(s) - 1)}

\* C30: the verdict of add_cards' is_problematic_taboo is the same when the
\* candidate comes in another casing or with spaces around it, when the
\* target has spaces inserted or removed, and when the target is replaced
\* by its normalized form.
C30_VerdictIgnoresCaseAndSpaces ==
    pc \in {"taboo_clean_cards", "taboo_add_more_cards", "taboo_done"} =>
        /\ \A c \in Recased(cand) \cup Respaced(cand) :
              is_problematic_taboo_add_cards(target, c) = verdict.add_cards
        /\ \A t \in Recased(target) \cup TargetRespaced(target) :
              is_problematic_taboo_add_cards(t, cand) = verdict.add_cards
        /\ is_problematic_taboo_add_cards(fix_capitalization(target), cand)
             = verdict.add_cards

\* what does hold: the verdict is the same in another casing of either
\* word and with spaces inserted into or removed from the target
C30_VerdictIgnoresCaseAndTargetSpaces ==
    pc \in {"taboo_clean_cards", "taboo_add_more_cards", "taboo_done"} =>
        /\ \A c \in Recased(cand) :
              is_problematic_taboo_add_cards(target, c) = verdict.add_cards
        /\ \A t \in Recased(target) \cup TargetRespaced(target) :
              is_problematic_taboo_add_cards(t, cand) = verdict.add_cards
        /\ is_problematic_taboo_add_cards(fix_capitalization(target), cand)
             = verdict.add_cards

-----------------------------------------------------------------------------
(* Claims about progress on disk and restarts                              *)

InCategory(cs, c) == Cardinality({i \in 1..Len(cs) : cs[i].category = c})

WithDifficulty(cs, d) == Cardinality({i \in 1..Len(cs) : cs[i].difficulty = d})

\* no card after the loaded ones repeats the word of a card before it
NoDuplicateAppended ==
    \A i \in (Len(base) + 1)..Len(cards) :
        /\ \A j \in 1..(i - 1) : lower(cards[j].word) # lower(cards[i].word)
        /\ \A j \in 1..Len(deck) : lower(deck[j].word) # lower(cards[i].word)

\* C21: in generate_cards and generate_from_wordlist, whenever a request is
\* about to be issued the collection file holds every card accepted so far,
\* and after a crash every card accepted before the crashing batch; a run,
\* restarted or not, has left to generate the target less the cards of the
\* category or tier that are on disk, and appends no card whose word is
\* already in the collection.
C21_ProgressOnDisk ==
    script \in {"generate_cards", "generate_from_wordlist"} =>
        /\ pc \in {"generate_cards_batch", "wordlist_batch"} => saved = cards
        /\ pc = "crashed" => saved = merge_from
        /\ pc = "generate_cards_batch" =>
              needed - generated = CategoryCount - InCategory(saved, cat_idx)
        /\ pc = "wordlist_batch" =>
              generated = WithDifficulty(saved, Tiers[cat_idx])
        /\ NoDuplicateAppended

\* a restarted generate_cards found cards of the current category on disk
\* and has added to them
C21_Witness ==
    /\ script = "generate_cards" /\ pc = "generate_cards_batch"
    /\ base # <<>>
    /\ InCategory(base, cat_idx) > 0
    /\ Len(cards) > Len(base)

\* the four difficulties
Difficulties == {"easy", "medium", "hard", "expert"}

\* one pass of a tier's loop: a request, its answer and the merge
TierBatchStep ==
    /\ script = "generate_from_wordlist" /\ pc = "wordlist_batch"
    /\ pc' \in {"wordlist_sleep", "crashed"}

\* what a pass of the loop does: it uses up one of the tier's batches and
\* gives every card it appends the tier's difficulty
TierBatchEffect ==
    /\ offset' = offset + 1
    /\ offset' <= TierBatches
    /\ Len(cards') >= Len(cards)
    /\ \A i \in (Len(cards) + 1)..Len(cards') :
          cards'[i].difficulty = Tiers[cat_idx]

\* between passes tier_generated is the number of cards of the tier, and
\* every card has one of the four difficulties
TierCountsRight ==
    script = "generate_from_wordlist" =>
        /\ pc \in {"wordlist_batch", "wordlist_sleep"} =>
              /\ generated = WithDifficulty(cards, Tiers[cat_idx])
              /\ offset <= TierBatches
        /\ \A i \in 1..Len(cards) : cards[i].difficulty \in Difficulties

\* C27: in generate_from_wordlist every card appended while a tier is
\* processed gets the tier's difficulty, whatever the service returned;
\* tier_generated is the number of cards in new_cards with the tier's
\* difficulty, every card's difficulty is one of easy, medium, hard, expert,
\* and a tier's loop issues no more requests than the tier has batches.
C27_TierDifficulty ==
    [][TierBatchStep => TierBatchEffect]_vars /\ []TierCountsRight

\* a card the service called hard was appended in another tier, on the
\* tier's last batch
C27_Witness ==
    /\ script = "generate_from_wordlist" /\ pc = "wordlist_sleep"
    /\ offset = TierBatches
    /\ Tiers[cat_idx] = "medium"
    /\ \E i \in (Len(base) + 1)..Len(cards) :
          cards[i].word = W_OX /\ cards[i].difficulty = "medium"

-----------------------------------------------------------------------------
(* Claims about the loop of generate_cards                                 *)

\* the while loop of a category is being run
InCategoryLoop ==
    script = "generate_cards"
    /\ pc \in {"generate_cards_batch", "generate_cards_sleep", "generate_cards_break"}

\* the loop of the category has been left, or the run has crashed in it
CategoryLoopLeft == pc \in {"generate_cards", "done", "crashed"}

\* one pass of the loop that returned to its head or reached its break
LoopPass ==
    /\ script = "generate_cards" /\ pc = "generate_cards_batch"
    /\ pc' \in {"generate_cards_sleep", "generate_cards_break"}

\* what a pass does to the counters: a batch with a new card resets
\* zero_count, a batch without one counts, and the third in a row breaks
LoopPassEffect ==
    /\ generated < needed
    /\ generated' >= generated
    /\ generated' > generated => zero_count' = 0 /\ pc' = "generate_cards_sleep"
    /\ generated' = generated =>
          /\ zero_count' = zero_count + 1
          /\ pc' = "generate_cards_break" <=> zero_count' >= 3

\* the loop is left as soon as enough cards were added
LoopEnds ==
    /\ script = "generate_cards" /\ pc = "generate_cards_batch"
    /\ pc' = "generate_cards"

\* C25: for every category and every sequence of the service's answers the
\* loop of generate_cards over the category is left (or the run has crashed
\* on a card without a word): the loop ends as soon as the cards added reach
\* the number needed, and breaks after 3 batches in a row without a new
\* card and not before; a batch with a new card sets the count of empty
\* batches to 0.
C25_CategoryLoopTerminates ==
    /\ InCategoryLoop ~> CategoryLoopLeft
    /\ [][LoopPass => LoopPassEffect]_vars
    /\ [][LoopEnds => generated >= needed]_vars
    /\ [](InCategoryLoop => zero_count <= 3)
    /\ []((script = "generate_cards" /\ pc = "generate_cards_batch") => zero_count < 3)

\* the loop took the break after the count of empty batches had been reset
C25_Witness ==
    /\ script = "generate_cards" /\ pc = "generate_cards_break"
    /\ zero_count = 3
    /\ generated > 0 /\ generated < needed

-----------------------------------------------------------------------------
(* Claims about the stages that never remove a card                        *)

PipelineStages ==
    {"generate_cards", "add_cards", "add_more_cards", "review_cards", "fix_taboo_caps"}

\* the card at position i of the file is the card that was loaded from
\* position i: its difficulty and its category are the loaded ones;
\* generate_cards and add_more_cards leave it as it was, review_cards and
\* fix_taboo_caps rewrite its taboo list only, add_cards may rewrite its
\* word and its taboo list
KeptInPlace(i) ==
    /\ saved[i].difficulty = base[i].difficulty
    /\ saved[i].category = base[i].category
    /\ script \in {"generate_cards", "add_more_cards"} => saved[i] = base[i]
    /\ script \in {"review_cards", "fix_taboo_caps"} => saved[i].word = base[i].word

\* C24: whatever generate_cards, add_cards, add_more_cards, review_cards or
\* fix_taboo_caps writes to cards.json holds at least as many cards as the
\* stage loaded, and the loaded cards are its first cards, in the loaded
\* order; a later stage loads what an earlier one saved, so the same holds
\* across any sequence of these stages
C24_NoCardRemoved ==
    script \in PipelineStages =>
        /\ Len(saved) >= Len(base)
        /\ \A i \in 1..Len(base) : KeptInPlace(i)

\* a stage has saved a collection that holds the two loaded cards first and
\* a new card after them
C24_Witness ==
    /\ script \in PipelineStages
    /\ pc = "done"
    /\ Len(base) = 2
    /\ Len(saved) > Len(base)
    /\ \A i \in 1..Len(base) : KeptInPlace(i)

=============================================================================
